---- MODULE Spec2Model ----
(***************************************************************************)
(* Guess-The-Anime quiz engine of kusogaki-bot.                            *)
(*                                                                         *)
(* Modelled code:                                                          *)
(*   features/guess_the_anime/service.py  GTAGameService                   *)
(*   features/guess_the_anime/cog.py      GTAQuizCog, AnswerView, JoinView *)
(*   features/guess_the_anime/data.py     GTARepository, GameState         *)
(*   shared/services/image_preloader.py   ImagePreloader                   *)
(*   services/game_manager.py             GameManager (the older engine)   *)
(*                                                                         *)
(* Every action is one run of a coroutine between two suspension points    *)
(* (an await that really yields to the event loop); asyncio runs such a    *)
(* segment without interleaving.                                           *)
(*                                                                         *)
(* cog.py reads GameState.round_feedback and PlayerState.pending_high_score*)
(* which data.py does not declare; both hold presentation text only and    *)
(* are taken to exist, so reading them raises nothing.  GameState's        *)
(* start_time and correct_streak are written and never read; they are not  *)
(* part of the state here.                                                 *)
(***************************************************************************)
EXTENDS Integers, Sequences, FiniteSets, TLC

\* ---------------------------------------------------------------- bounds
MaxImages == 2      \* image ids of the catalog are 1..MaxImages
MaxFills == 2       \* _preload_batch runs of the preloader in flight
MaxTasks == 2       \* countdown/game tasks alive at a time
MaxCorrect == 3     \* rewarded answers explored per session
MaxGuesses == 2     \* correct reactions explored per game of GameManager
MaxDebt == 1        \* lives are explored down to -MaxDebt
MaxScore == 3       \* scores handed to update_player_score directly
MaxPoolGames == 2   \* games created in a run of the two-channel bot
MaxGames == 1       \* games created in a run of the one-channel bot
MaxIncidents == 1   \* failures and turned-away presses in a run
MaxPressIncidents == 2 \* turned-away presses in a run of the bot whose calls do not fail
MaxProgress == 9    \* rewarded answers of a session whose progression is followed
SmallPreloadCount == 2 \* preload_count of the preloader built with a small target
SmallCatalog == 3   \* rows of the easy category offered to that preloader
MaxCopies == 6      \* rows of one tier that carry the same anime_name
MaxOld == 1         \* answer views of earlier rounds that still take presses
MaxManagerGames == 2 \* games GameManager creates in a run

\* ------------------------------------------------------ program constants
StartingLives == 3
EASY_THRESHOLD == 2
MEDIUM_THRESHOLD == 2
HARD_THRESHOLD == 3
DefaultPreloadCount == 20
MinBatchSize == 5
MAX_OPTIONS == 4
WrongOptionsKept == 10
STARTING_HP == 3

Users == {1, 2}          \* Discord users who press buttons and send commands
Starters == {1}          \* users who send gta start
Members == {1, 2, 3}     \* users who may own a leaderboard row
Channels == {1, 2}
ImageIds == 1..MaxImages
FillIds == 1..MaxFills
TaskIds == 1..MaxTasks
GameIds == 1..MaxManagerGames   \* the uuids GameManager.create_game draws, in order
Categories == {"easy", "medium", "hard", "normal"}
AnimeNames == {"Akira", "Bleach", "Clannad"}   \* values of gta_images.anime_name
DisplayNames == {"Rin", "Sho"}   \* names a user may carry when a score is stored
Tiers == {"easy", "medium", "hard"}

NoGame == [sid |-> 0]
NoEntry == [highest_score |-> -1, display_name |-> "", place |-> -1]
NoFill == [phase |-> "none"]
NoNames == [x \in AnimeNames |-> 0]
NoRound == [anime_name |-> "", wrong_options |-> NoNames, options |-> <<>>]
NoTask == [pc |-> "none"]
NoSession == [channel_id |-> 0]
NoLoop == [pc |-> "none"]

VARIABLES
    chans,              \* channels that receive commands in this run
    left,               \* what this run may still see: games created, and incidents (a
                        \* failure of Discord, the database or the image host, a press
                        \* that is turned away after it was recorded)
    catalog,            \* gta_images: category -> ids stored for it
    anime_names,        \* gta_images.anime_name of one tier: name -> number of rows
    round_data,         \* the row get_images_batch built last and the options of its round
    preload_count,      \* ImagePreloader.preload_count
    preloaded_images,   \* ImagePreloader.preloaded_images: category -> queue of ids
    used_images,        \* ImagePreloader.used_images: category -> set of ids
    preload_tasks,      \* ImagePreloader._preload_tasks: category -> fill id, 0 = no key
    fills,              \* _preload_batch coroutines of initialize() and of refill tasks
    served,             \* history: category -> ids returned by get_next_image since the last cleanup_category
    dup_served,         \* history: an id was returned twice without a cleanup_category between
    board,              \* gta_game_leaderboard: user -> row
    games,              \* GTAGameService.games: channel -> GameState
    active_countdowns,  \* GTAQuizCog.active_countdowns: channel -> task id, 0 = no key
    tasks,              \* the _run_countdown/_run_game coroutines
    inflight,           \* button callbacks suspended after touching the game state
    views,              \* channel -> AnswerViews posted: [cur, old]
    hist,               \* history of the current round, per channel
    manager_games,      \* GameManager.games: game id -> GameState of the older engine
    answered_this_round,\* GameManager.answered_this_round: game id -> user ids
    gq_tasks,           \* the older cog's start command and run_countdown/run_game task, per game id
    enders,             \* game ids with an end_game call of a stop command suspended
    issued              \* number of game ids drawn so far

poolvars == <<catalog, anime_names, round_data, preload_count, preloaded_images, used_images, preload_tasks,
              fills, served, dup_served>>
boardvars == <<board>>
gamevars == <<games, active_countdowns, tasks, inflight, views, hist>>
managervars == <<manager_games, answered_this_round, gq_tasks, enders, issued>>
vars == <<chans, left, poolvars, boardvars, gamevars, managervars>>

\* This step creates g games and meets e incidents.
Spend(g, e) ==
    /\ left.games >= g /\ left.incidents >= e
    /\ left' = [games |-> left.games - g, incidents |-> left.incidents - e]

Min(a, b) == IF a < b THEN a ELSE b
Max(a, b) == IF a > b THEN a ELSE b

\* ==================================================================
\* ImagePreloader (shared/services/image_preloader.py)
\* ==================================================================

\* The preloader's fields as one value, so that the steps of a coroutine compose.
Pool == [pre |-> preloaded_images, used |-> used_images, tasks |-> preload_tasks,
         fills |-> fills, served |-> served, dup |-> dup_served]

SetPool(P) ==
    /\ preloaded_images' = P.pre
    /\ used_images' = P.used
    /\ preload_tasks' = P.tasks
    /\ fills' = P.fills
    /\ served' = P.served
    /\ dup_served' = P.dup
    /\ UNCHANGED <<catalog, anime_names, round_data, preload_count>>

\* self._batch_size = max(5, preload_count // 2)
batch_size == Max(MinBatchSize, preload_count \div 2)

\* GTARepository.get_images_batch: up to batch_size rows of the category whose id is
\* not in used_ids, in random order.
get_images_batch(cat, used_ids) ==
    LET U == catalog[cat] \ used_ids
        k == Min(batch_size, Cardinality(U))
    IN  {s \in [1..k -> U] : \A i, j \in 1..k : i # j => s[i] # s[j]}

\* The finally clause of _preload_batch: the category's key is deleted, whoever runs.
preload_finally(P, cat) == [P EXCEPT !.tasks[cat] = 0]

\* A loop that appends every fetched row.
RECURSIVE append_batch_all(_, _, _)
append_batch_all(P, cat, data) ==
    IF data = <<>> THEN P
    ELSE append_batch_all([P EXCEPT !.used[cat] = @ \cup {Head(data)},
                                    !.pre[cat] = Append(@, Head(data))],
                          cat, Tail(data))

\* A loop that appends the rows without marking their ids used.
RECURSIVE append_batch_unmarked(_, _, _)
append_batch_unmarked(P, cat, data) ==
    IF data = <<>> \/ Len(P.pre[cat]) >= preload_count THEN P
    ELSE append_batch_unmarked([P EXCEPT !.pre[cat] = Append(@, Head(data))], cat, Tail(data))

\* The loop of _preload_batch after the await: append until the queue holds preload_count.
RECURSIVE append_batch(_, _, _)
append_batch(P, cat, data) ==
    IF data = <<>> \/ Len(P.pre[cat]) >= preload_count THEN P
    ELSE append_batch([P EXCEPT !.used[cat] = @ \cup {Head(data)},
                                !.pre[cat] = Append(@, Head(data))],
                      cat, Tail(data))

\* _preload_batch from the return of image_service.preload_images to its end.
preload_resume(P, cat, data) == preload_finally(append_batch(P, cat, data), cat)

FreeFills(P) == {f \in FillIds : P.fills[f] = NoFill}

\* get_next_image from the pop on: pop(0), then create the refill task when the queue
\* is under half of preload_count and the category has no key in _preload_tasks.
NeedsRefill(P, cat) == 2 * (Len(P.pre[cat]) - 1) < preload_count /\ P.tasks[cat] = 0
CanPop(P, cat) == P.pre[cat] # <<>> /\ (NeedsRefill(P, cat) => FreeFills(P) # {})
pop_next(P, cat) ==
    LET id == Head(P.pre[cat])
        P1 == [P EXCEPT !.pre[cat] = Tail(@),
                        !.served[cat] = @ \cup {id},
                        !.dup = @ \/ id \in P.served[cat]]
        f == CHOOSE x \in FreeFills(P) : \A y \in FreeFills(P) : x <= y
    IN  IF NeedsRefill(P, cat)
        THEN [P1 EXCEPT !.tasks[cat] = f,
                        !.fills[f] = [phase |-> "new", cat |-> cat, data |-> <<>>]]
        ELSE P1

\* cleanup_category up to its call of _preload_batch: both collections are cleared, the
\* refill task is cancelled and its key deleted.  A task cancelled before its first
\* step never runs; one cancelled in its await runs its finally clause when resumed.
cleanup_clear(P, cat) ==
    LET f == P.tasks[cat]
        P1 == [P EXCEPT !.used[cat] = {}, !.pre[cat] = <<>>, !.served[cat] = {}]
    IN  IF f = 0 THEN P1
        ELSE [P1 EXCEPT !.tasks[cat] = 0,
                        !.fills[f] = IF P.fills[f].phase = "new" THEN NoFill
                                     ELSE [@ EXCEPT !.phase = "cancelled"]]
\* ------------------------------------------------------------------
\* get_round_data, lines 312-329: get_next_image, then on None cleanup_category and
\* get_next_image again.  Each operator gives the states in which the coroutine can
\* next suspend (or end): a _preload_batch that fetched nothing awaits nothing real
\* (preload_images of an empty list returns at once), so the run goes on.
\* An outcome is [P, pc, data, img]: pc "fill1"/"fill2"/"fill3" is the await inside
\* _preload_batch of the first get_next_image / cleanup_category / second
\* get_next_image; "load" is the await of get_image_file; "fail" is the ValueError.
\* ------------------------------------------------------------------
Outcome(P, pc, data, img) == [P |-> P, pc |-> pc, data |-> data, img |-> img]

\* A get_next_image that hands out the newest row of the queue.
prep_pop_newest(P, cat) ==
    IF CanPop(P, cat)
    THEN {Outcome([pop_next(P, cat) EXCEPT !.pre[cat] = SubSeq(P.pre[cat], 1, Len(P.pre[cat]) - 1)],
                  "load", <<>>, P.pre[cat][Len(P.pre[cat])])}
    ELSE {}

prep_pop(P, cat) ==
    IF CanPop(P, cat)
    THEN {Outcome(pop_next(P, cat), "load", <<>>, Head(P.pre[cat]))}
    ELSE {}

prep_get2(P, cat) ==
    IF P.pre[cat] # <<>> THEN prep_pop(P, cat)
    ELSE {IF data = <<>>
          THEN Outcome(preload_finally(P, cat), "fail", <<>>, 0)
          ELSE Outcome(P, "fill3", data, 0) : data \in get_images_batch(cat, P.used[cat])}

\* A get_round_data that raises as soon as get_next_image has returned None.
prep_no_reset(P, cat) == {Outcome(P, "fail", <<>>, 0)}

prep_cleanup(P, cat) ==
    LET P1 == cleanup_clear(P, cat)
    IN  UNION {IF data = <<>>
               THEN prep_get2(preload_finally(P1, cat), cat)
               ELSE {Outcome(P1, "fill2", data, 0)} : data \in get_images_batch(cat, {})}

prep_get1(P, cat) ==
    IF P.pre[cat] # <<>> THEN prep_pop(P, cat)
    ELSE UNION {IF data = <<>>
                THEN prep_cleanup(preload_finally(P, cat), cat)
                ELSE {Outcome(P, "fill1", data, 0)} : data \in get_images_batch(cat, P.used[cat])}

\* The coroutine resumed in one of the three _preload_batch awaits.
prep_resume(pc, P, cat, data) ==
    LET P1 == preload_resume(P, cat, data)
    IN  CASE pc = "fill1" -> IF P1.pre[cat] = <<>> THEN prep_cleanup(P1, cat) ELSE prep_pop(P1, cat)
          [] pc = "fill2" -> prep_get2(P1, cat)
          [] pc = "fill3" -> IF P1.pre[cat] = <<>>
                             THEN {Outcome(P1, "fail", <<>>, 0)}
                             ELSE prep_pop(P1, cat)

\* A refill task (or a coroutine of initialize) takes its first step: _preload_batch up
\* to the await of preload_images.
FillStart(f) ==
    /\ fills[f] # NoFill /\ fills[f].phase = "new"
    /\ LET cat == fills[f].cat
           P == Pool
       IN  IF Len(P.pre[cat]) >= preload_count
           THEN SetPool([preload_finally(P, cat) EXCEPT !.fills[f] = NoFill])
           ELSE \E data \in get_images_batch(cat, P.used[cat]) :
                   IF data = <<>>
                   THEN SetPool([preload_finally(P, cat) EXCEPT !.fills[f] = NoFill])
                   ELSE SetPool([P EXCEPT !.fills[f] = [phase |-> "wait", cat |-> cat, data |-> data]])
    /\ UNCHANGED <<chans, managervars, left, boardvars, gamevars>>

\* It is resumed after preload_images: the fetched rows are appended.
FillDone(f) ==
    /\ fills[f] # NoFill /\ fills[f].phase = "wait"
    /\ SetPool([preload_resume(Pool, fills[f].cat, fills[f].data) EXCEPT !.fills[f] = NoFill])
    /\ UNCHANGED <<chans, managervars, left, boardvars, gamevars>>

\* A cancelled refill task is resumed with CancelledError: only its finally clause runs.
FillCancelled(f) ==
    /\ fills[f] # NoFill /\ fills[f].phase = "cancelled"
    /\ SetPool([preload_finally(Pool, fills[f].cat) EXCEPT !.fills[f] = NoFill])
    /\ UNCHANGED <<chans, managervars, left, boardvars, gamevars>>

\* ==================================================================
\* The options of a round (data.py get_images_batch, service.py get_round_data).
\* A list of names is held as a bag, name -> number of occurrences: the order of
\* wrong_options is never read, that of the options is drawn by random.shuffle.
\* ==================================================================
RECURSIVE BagSum(_, _)
BagSum(b, S) == IF S = {} THEN 0
                ELSE LET x == CHOOSE y \in S : TRUE IN b[x] + BagSum(b, S \ {x})
BagSize(b) == BagSum(b, AnimeNames)

\* random.sample(names, k): k occurrences taken from the list.
sample(b, k) == {s \in [AnimeNames -> 0..k] : (\A x \in AnimeNames : s[x] <= b[x]) /\ BagSize(s) = k}

Occurrences(o, x) == Cardinality({i \in DOMAIN o : o[i] = x})

\* A row's list that keeps every name of the tier.
wrong_options_unfiltered(names, name) ==
    IF BagSize(names) > WrongOptionsKept THEN sample(names, WrongOptionsKept) ELSE {names}

\* get_images_batch, the loop over the rows: the names of the tier other than the row's
\* own, cut to a sample of 10 when there are more.
wrong_options(names, name) ==
    LET w == [x \in AnimeNames |-> IF x = name THEN 0 ELSE names[x]]
    IN  IF BagSize(w) > WrongOptionsKept THEN sample(w, WrongOptionsKept) ELSE {w}

\* get_round_data: random.sample of min(MAX_OPTIONS - 1, len) wrong options, the row's
\* anime_name appended, random.shuffle.
round_options(name, wrong) ==
    LET k == Min(MAX_OPTIONS - 1, BagSize(wrong))
    IN  UNION {{o \in [1..(k + 1) -> AnimeNames] :
                   \A x \in AnimeNames : Occurrences(o, x) = s[x] + IF x = name THEN 1 ELSE 0}
               : s \in sample(wrong, k)}

\* ==================================================================
\* GTARepository leaderboard (features/guess_the_anime/data.py)
\* ==================================================================
Entries(B) == {u \in Members : B[u] # NoEntry}

\* A ranking that numbers the rows from 0.
update_rankings_from_zero(B) ==
    LET E == Entries(B)
        n == Cardinality(E)
        R == {r \in [E -> 0..(n - 1)] :
                 /\ \A a, b \in E : a # b => r[a] # r[b]
                 /\ \A a, b \in E : B[a].highest_score > B[b].highest_score => r[a] < r[b]}
    IN  {[u \in Members |-> IF u \in E THEN [B[u] EXCEPT !.place = r[u]] ELSE NoEntry] : r \in R}

\* _update_rankings: the rows ordered by highest_score descending get place 1..N; the
\* order among equal scores is the database's choice.
update_rankings(B) ==
    LET E == Entries(B)
        n == Cardinality(E)
        R == {r \in [E -> 1..n] :
                 /\ \A a, b \in E : a # b => r[a] # r[b]
                 /\ \A a, b \in E : B[a].highest_score > B[b].highest_score => r[a] < r[b]}
    IN  {[u \in Members |-> IF u \in E THEN [B[u] EXCEPT !.place = r[u]] ELSE NoEntry] : r \in R}

DbFaults == {"none", "commit", "rank"}

\* An update that also stores a score equal to the stored one.
update_player_score_on_equal(B, u, display_name, score, fault) ==
    LET is_new == B[u] = NoEntry
        is_high == is_new \/ score >= B[u].highest_score
        B1 == [B EXCEPT ![u] = IF is_new
                                THEN [highest_score |-> score, display_name |-> display_name, place |-> 0]
                                ELSE [@ EXCEPT !.highest_score = score, !.display_name = display_name]]
    IN  IF fault = "commit" THEN {[board |-> B, ret |-> -1, raised |-> TRUE]}
        ELSE IF ~is_high THEN {[board |-> B, ret |-> -1, raised |-> FALSE]}
        ELSE IF fault = "rank" THEN {[board |-> B1, ret |-> -1, raised |-> TRUE]}
        ELSE {[board |-> B2, ret |-> score, raised |-> FALSE] : B2 \in update_rankings(B1)}

\* update_player_score.  fault: "commit" = the query or the first commit raises (the
\* rollback leaves the table as it was); "rank" = _update_rankings raises after the
\* first commit stored the score.  A result is [board, ret, raised]; ret -1 is None.
update_player_score(B, u, display_name, score, fault) ==
    LET is_new == B[u] = NoEntry
        is_high == is_new \/ score > B[u].highest_score
        B1 == [B EXCEPT ![u] = IF is_new
                                THEN [highest_score |-> score, display_name |-> display_name, place |-> 0]
                                ELSE [@ EXCEPT !.highest_score = score, !.display_name = display_name]]
    IN  IF fault = "commit" THEN {[board |-> B, ret |-> -1, raised |-> TRUE]}
        ELSE IF ~is_high THEN {[board |-> B, ret |-> -1, raised |-> FALSE]}
        ELSE IF fault = "rank" THEN {[board |-> B1, ret |-> -1, raised |-> TRUE]}
        ELSE {[board |-> B2, ret |-> score, raised |-> FALSE] : B2 \in update_rankings(B1)}
\* ==================================================================
\* GTAGameService (features/guess_the_anime/service.py)
\* ==================================================================

\* str.upper() and str.lower() on the difficulty words a start command is given here.
DifficultyInputs == {"MEDIUM", "normal", "bogus"}
upper(s) == CASE s = "easy" -> "EASY" [] s = "MEDIUM" -> "MEDIUM" [] s = "normal" -> "NORMAL"
              [] s = "bogus" -> "BOGUS" [] s = "Easy" -> "EASY" [] s = "hArD" -> "HARD"
              [] s = "med" -> "MED" [] OTHER -> s
lower(s) == CASE s = "easy" -> "easy" [] s = "MEDIUM" -> "medium" [] s = "normal" -> "normal"
              [] s = "bogus" -> "bogus" [] s = "Easy" -> "easy" [] s = "hArD" -> "hard"
              [] s = "med" -> "med" [] OTHER -> s
MemberNames == [EASY |-> "easy", MEDIUM |-> "medium", HARD |-> "hard", NORMAL |-> "normal"]

\* from_str that compares the word as it is written.
from_str_exact(difficulty) ==
    IF difficulty \in Categories THEN difficulty ELSE "invalid"

\* GameDifficulty.from_str: the member named difficulty.upper(), else the member whose
\* value is difficulty.lower(), else ValueError ("invalid").
from_str(difficulty) ==
    IF upper(difficulty) \in DOMAIN MemberNames THEN MemberNames[upper(difficulty)]
    ELSE IF lower(difficulty) \in Categories THEN lower(difficulty)
    ELSE "invalid"

PlayerState == [lives |-> StartingLives, score |-> 0]
\* PlayerState.name, the Discord name the player had when they joined.
player_name(u) == IF u = 1 THEN "Rin" ELSE "Sho"

Roster(g) == DOMAIN g.players

\* A session id tells the GameState objects apart that a channel has had: a callback
\* keeps the object it fetched even after the channel got a new one.
NextSid ==
    LET usedSids == {games[c].sid : c \in Channels} \cup {r.sid : r \in inflight}
    IN  CHOOSE n \in 1..(Cardinality(usedSids) + 1) : n \notin usedSids /\ \A m \in 1..(n - 1) : m \in usedSids

\* add_player without its test of is_active.
add_player_any_time(G, c, u) ==
    IF G[c] = NoGame THEN [games |-> G, code |-> "NoSuchGame"]
    ELSE IF u \in Roster(G[c]) THEN [games |-> G, code |-> "AlreadyJoined"]
    ELSE [games |-> [G EXCEPT ![c].players =
                        [x \in Roster(G[c]) \cup {u} |-> IF x = u THEN PlayerState ELSE G[c].players[x]]],
          code |-> "Joined"]

\* add_player on the games table G.
add_player(G, c, u) ==
    IF G[c] = NoGame THEN [games |-> G, code |-> "NoSuchGame"]
    ELSE IF G[c].is_active THEN [games |-> G, code |-> "GameAlreadyActive"]
    ELSE IF u \in Roster(G[c]) THEN [games |-> G, code |-> "AlreadyJoined"]
    ELSE [games |-> [G EXCEPT ![c].players =
                        [x \in Roster(G[c]) \cup {u} |-> IF x = u THEN PlayerState ELSE G[c].players[x]]],
          code |-> "Joined"]

\* A GameState that is born started.
NewGameStarted(u, difficulty, sid) ==
    [sid |-> sid, creator_id |-> u, players |-> <<>>,
     difficulty |-> IF difficulty = "" THEN "normal" ELSE from_str(difficulty),
     is_active |-> TRUE, easy_correct |-> 0, medium_correct |-> 0,
     hard_correct |-> 0, answered_players |-> {}, timed_out_players |-> {},
     processing_answers |-> FALSE]

\* The GameState create_game constructs, before the creator is added.
NewGame(u, difficulty, sid) ==
    [sid |-> sid, creator_id |-> u, players |-> <<>>,
     difficulty |-> IF difficulty = "" THEN "normal" ELSE from_str(difficulty),
     is_active |-> FALSE, easy_correct |-> 0, medium_correct |-> 0,
     hard_correct |-> 0, answered_players |-> {}, timed_out_players |-> {},
     processing_answers |-> FALSE]

\* create_game without its first test: the channel's entry is overwritten.
create_game_overwriting(G, c, u, difficulty, sid) ==
    IF difficulty # "" /\ from_str(difficulty) = "invalid"
    THEN [games |-> G, code |-> "InvalidDifficulty"]
    ELSE [games |-> add_player([G EXCEPT ![c] = NewGame(u, difficulty, sid)], c, u).games,
          code |-> "Created"]

\* create_game on the games table G; sid names the new GameState object.
create_game(G, c, u, difficulty, sid) ==
    IF G[c] # NoGame THEN [games |-> G, code |-> "AlreadyRunning"]
    ELSE IF difficulty # "" /\ from_str(difficulty) = "invalid"
    THEN [games |-> G, code |-> "InvalidDifficulty"]
    ELSE [games |-> add_player([G EXCEPT ![c] = NewGame(u, difficulty, sid)], c, u).games,
          code |-> "Created"]

\* start_game that does not look at the roster.
start_game_unchecked(G, c) ==
    IF G[c] = NoGame THEN G
    ELSE [G EXCEPT ![c].is_active = TRUE]

\* start_game: False without a game or without players.
start_game(G, c) ==
    IF G[c] = NoGame \/ Roster(G[c]) = {} THEN G
    ELSE [G EXCEPT ![c].is_active = TRUE]

start_next_round(G, c) ==
    IF G[c] = NoGame THEN G
    ELSE [G EXCEPT ![c].answered_players = {}, ![c].timed_out_players = {},
                   ![c].processing_answers = FALSE]

cleanup_game(G, c) == [G EXCEPT ![c] = NoGame]

\* stop_game on the games table G.
stop_game(G, c, u) ==
    IF G[c] = NoGame THEN [games |-> G, code |-> "NoSuchGame"]
    ELSE IF G[c].creator_id # u THEN [games |-> G, code |-> "NotAuthorized"]
    ELSE [games |-> cleanup_game(G, c), code |-> "Stopped"]

get_active_players(g) == {u \in Roster(g) : g.players[u].lives > 0}

\* A game-over check that fires as soon as one player has no life left.
check_game_over_first_out(G, c) ==
    G[c] = NoGame \/ get_active_players(G[c]) # Roster(G[c]) \/ Roster(G[c]) = {}

\* check_game_over: over when the channel has no game or no player has a life left.
check_game_over(G, c) == G[c] = NoGame \/ get_active_players(G[c]) = {}

\* The final scores check_game_over returns with True for the game g.
final_scores(g) == [u \in Roster(g) |-> g.players[u].score]

\* A progression that starts over with "easy" once the three thresholds are reached.
get_current_difficulty_starting_over(g) ==
    IF g.difficulty # "normal" THEN {g.difficulty}
    ELSE IF g.easy_correct < EASY_THRESHOLD THEN {"easy"}
    ELSE IF g.medium_correct < MEDIUM_THRESHOLD THEN {"medium"}
    ELSE IF g.hard_correct < HARD_THRESHOLD THEN {"hard"}
    ELSE {"easy"}

\* get_current_difficulty: the values it can return (random.choice once all three
\* thresholds are reached in normal mode).
get_current_difficulty(g) ==
    IF g.difficulty # "normal" THEN {g.difficulty}
    ELSE IF g.easy_correct < EASY_THRESHOLD THEN {"easy"}
    ELSE IF g.medium_correct < MEDIUM_THRESHOLD THEN {"medium"}
    ELSE IF g.hard_correct < HARD_THRESHOLD THEN {"hard"}
    ELSE Tiers

Points(d) == CASE d = "easy" -> 1 [] d = "medium" -> 2 [] d = "hard" -> 3 [] OTHER -> 0

\* The correct branch of process_answer up to the call of update_player_score.
reward(g, u, d) ==
    [g EXCEPT !.easy_correct = IF d = "easy" THEN @ + 1 ELSE @,
              !.medium_correct = IF d = "medium" THEN @ + 1 ELSE @,
              !.hard_correct = IF d = "hard" THEN @ + 1 ELSE @,
              !.players[u].score = @ + Points(d)]

\* The wrong branch of process_answer.
penalize(g, u) ==
    IF u \in g.timed_out_players THEN g ELSE [g EXCEPT !.players[u].lives = @ - 1]

\* handle_game_timeout that walks every session of the table.
handle_game_timeout_everywhere(G, c) ==
    [x \in DOMAIN G |->
        IF G[x] = NoGame THEN G[x]
        ELSE LET g == G[x]
                 late == {u \in Roster(g) : /\ g.players[u].lives > 0
                                            /\ u \notin g.answered_players
                                            /\ u \notin g.timed_out_players}
             IN  [g EXCEPT !.players = [u \in Roster(g) |->
                                           IF u \in late THEN [g.players[u] EXCEPT !.lives = @ - 1]
                                           ELSE g.players[u]],
                           !.timed_out_players = @ \cup late]]

\* handle_game_timeout: every player with a life left who neither answered nor was
\* timed out already loses a life and is marked timed out.
handle_game_timeout(G, c) ==
    IF G[c] = NoGame THEN G
    ELSE LET g == G[c]
             late == {u \in Roster(g) : /\ g.players[u].lives > 0
                                        /\ u \notin g.answered_players
                                        /\ u \notin g.timed_out_players}
         IN  [G EXCEPT ![c].players = [u \in Roster(g) |->
                                          IF u \in late THEN [g.players[u] EXCEPT !.lives = @ - 1]
                                          ELSE g.players[u]],
                       ![c].timed_out_players = @ \cup late]

have_all_players_answered(G, c) ==
    G[c] # NoGame /\ get_active_players(G[c]) \subseteq G[c].answered_players
\* ==================================================================
\* GTAQuizCog and AnswerView (features/guess_the_anime/cog.py)
\* ==================================================================
Task(c, pc, cat, data, img) == [c |-> c, pc |-> pc, cat |-> cat, data |-> data, img |-> img]
FreeTasks == {t \in TaskIds : tasks[t] = NoTask}
FillPcs == {"fill1", "fill2", "fill3"}

\* History of a round: hit = the players a submission of whom was processed in it,
\* won = the players rewarded in it, active0 = the players who had a life left when it
\* began, ended = the exit its waiting loop took ("" while it has taken none).
NewHist(g) == [hit |-> {}, won |-> {}, ended |-> "",
               active0 |-> IF g = NoGame THEN {} ELSE get_active_players(g)]
Bump(h, u, wins) == [h EXCEPT !.hit = @ \cup {u},
                              !.won = IF wins THEN @ \cup {u} ELSE @]

\* The task is over: the finally clause of _run_countdown and the done callback delete
\* the channel's entry of active_countdowns if there is one.
TaskEnd(t) ==
    /\ tasks' = [tasks EXCEPT ![t] = NoTask]
    /\ active_countdowns' = [active_countdowns EXCEPT ![tasks[t].c] = 0]

\* The head of the loop of _run_game on the games table G: start_next_round, then
\* get_round_data up to its first suspension.
RunRound(t, G) ==
    LET c == tasks[t].c
    IN  IF G[c] = NoGame
        THEN /\ games' = G
             /\ tasks' = [tasks EXCEPT ![t].pc = "fail_send"]
             /\ UNCHANGED <<poolvars, hist>>
        ELSE \E d \in get_current_difficulty(G[c]) :
             \E o \in prep_get1(Pool, d) :
                /\ games' = start_next_round(G, c)
                /\ SetPool(o.P)
                /\ tasks' = [tasks EXCEPT ![t] = Task(c, IF o.pc = "fail" THEN "fail_send" ELSE o.pc,
                                                      d, o.data, o.img)]
                /\ hist' = [hist EXCEPT ![c] = NewHist(G[c])]

\* task.cancel() on the channel's entry of active_countdowns and del of the entry, as
\* gta stop and the exception handler of gta start do them.  The CancelledError passes
\* through every handler of _run_game; a task waiting inside _preload_batch runs that
\* coroutine's finally clause.  T is the tasks table the caller leaves.
CancelCountdown(c, T) ==
    LET t == active_countdowns[c]
    IN  IF t = 0
        THEN tasks' = T /\ UNCHANGED <<active_countdowns, poolvars>>
        ELSE /\ tasks' = [T EXCEPT ![t] = NoTask]
             /\ active_countdowns' = [active_countdowns EXCEPT ![c] = 0]
             /\ IF tasks[t].pc \in FillPcs
                THEN SetPool(preload_finally(Pool, tasks[t].cat))
                ELSE UNCHANGED poolvars

\* gta start: the command up to the await that sends the join message.  With an entry
\* in active_countdowns it sends 'already starting'; failed: that send raises and the
\* handler cancels the entry's task.
StartCmd(c, u, d, failed) ==
    /\ c \in chans
    /\ failed => active_countdowns[c] # 0
    /\ IF active_countdowns[c] # 0
       THEN IF failed
            THEN /\ CancelCountdown(c, tasks)
                 /\ Spend(0, 1)
                 /\ UNCHANGED <<chans, managervars, boardvars, games, inflight, views, hist>>
            ELSE UNCHANGED vars
       ELSE LET r == create_game(games, c, u, d, NextSid)
            IN  IF r.code # "Created" THEN UNCHANGED vars
                ELSE /\ FreeTasks # {}
                     /\ LET t == CHOOSE x \in FreeTasks : \A y \in FreeTasks : x <= y
                        IN  tasks' = [tasks EXCEPT ![t] = Task(c, "spawn", "none", <<>>, 0)]
                     /\ games' = r.games
                     /\ hist' = [hist EXCEPT ![c] = NewHist(r.games[c])]
                     /\ Spend(1, 0)
                     /\ UNCHANGED <<chans, managervars, poolvars, boardvars, active_countdowns, inflight, views>>

\* gta start after the join message is sent: the countdown task is created and entered
\* in active_countdowns; when the send raised, the game stays and the handler cancels
\* the task the channel has an entry for.
SpawnDone(t, sent) ==
    /\ tasks[t].pc = "spawn"
    /\ IF sent
       THEN /\ tasks' = [tasks EXCEPT ![t].pc = "countdown"]
            /\ active_countdowns' = [active_countdowns EXCEPT ![tasks[t].c] = t]
            /\ UNCHANGED <<left, poolvars>>
       ELSE /\ CancelCountdown(tasks[t].c, [tasks EXCEPT ![t] = NoTask])
            /\ Spend(0, 1)
    /\ UNCHANGED <<chans, managervars, boardvars, games, inflight, views, hist>>

\* The join button.
JoinCmd(c, u) ==
    /\ c \in chans
    /\ games' = add_player(games, c, u).games
    /\ UNCHANGED <<chans, managervars, left, poolvars, boardvars, active_countdowns, tasks, inflight, views, hist>>

\* gta stop: stop_game, then the channel's task is cancelled.
StopCmd(c, u) ==
    /\ c \in chans
    /\ LET r == stop_game(games, c, u)
       IN  /\ games' = r.games
           /\ IF r.code = "Stopped"
              THEN CancelCountdown(c, tasks)
              ELSE UNCHANGED <<tasks, active_countdowns, poolvars>>
    /\ UNCHANGED <<chans, managervars, left, boardvars, inflight, views, hist>>

\* _run_countdown after its last sleep: without a game, or when start_game refuses,
\* the task ends; else start_game and the first round of _run_game.
CountdownDone(t) ==
    /\ tasks[t].pc = "countdown"
    /\ IF games[tasks[t].c] = NoGame \/ ~start_game(games, tasks[t].c)[tasks[t].c].is_active
       THEN TaskEnd(t) /\ UNCHANGED <<poolvars, games, hist>>
       ELSE RunRound(t, start_game(games, tasks[t].c)) /\ UNCHANGED active_countdowns
    /\ UNCHANGED <<chans, managervars, left, boardvars, inflight, views>>

\* get_round_data resumed inside one of its _preload_batch calls.
PrepResume(t) ==
    /\ tasks[t].pc \in FillPcs
    /\ \E o \in prep_resume(tasks[t].pc, Pool, tasks[t].cat, tasks[t].data) :
          /\ SetPool(o.P)
          /\ tasks' = [tasks EXCEPT ![t].pc = IF o.pc = "fail" THEN "fail_send" ELSE o.pc,
                                    ![t].data = o.data, ![t].img = o.img]
    /\ UNCHANGED <<chans, managervars, left, boardvars, games, active_countdowns, inflight, views, hist>>
\* get_round_data resumed after get_image_file, and _run_game up to the loop that waits
\* for the answers.  "noimg": no file, the round is skipped; "crash": reading the game
\* (none is left) or sending the round message raised; else the new AnswerView is up.
LoadDone(t, result) ==
    /\ tasks[t].pc = "load"
    /\ LET c == tasks[t].c
       IN  IF result = "noimg"
           THEN /\ tasks' = [tasks EXCEPT ![t].pc = "noimg"]
                /\ Spend(0, 1)
                /\ UNCHANGED <<views, inflight>>
           ELSE IF result = "crash" \/ games[c] = NoGame
           THEN /\ tasks' = [tasks EXCEPT ![t].pc = "crash_send"]
                /\ Spend(0, IF result = "crash" THEN 1 ELSE 0)
                /\ UNCHANGED <<views, inflight>>
           ELSE /\ tasks' = [tasks EXCEPT ![t].pc = "collect"]
                /\ UNCHANGED left
                /\ views' = [views EXCEPT ![c] = [cur |-> TRUE,
                                                  old |-> Min(MaxOld, @.old + IF @.cur THEN 1 ELSE 0)]]
                /\ inflight' = {IF r.c = c THEN [r EXCEPT !.cur = FALSE] ELSE r : r \in inflight}
    /\ UNCHANGED <<chans, managervars, poolvars, boardvars, games, active_countdowns, hist>>

\* After 'Failed to load image for this round' is sent: continue.
NoImgDone(t) ==
    /\ tasks[t].pc = "noimg"
    /\ RunRound(t, games)
    /\ UNCHANGED <<chans, managervars, left, boardvars, active_countdowns, inflight, views>>

\* The exits of the waiting loop of _run_game: the test of have_all_players_answered
\* at the head of an iteration, the end of the range, and discord.NotFound raised by
\* the edit of the round's message.
RoundExits == {"answered", "deadline", "deleted"}

\* The waiting loop is left by exit why, and handle_game_timeout runs.
RoundEnd(t, why) ==
    /\ tasks[t].pc = "collect"
    /\ why = "answered" => have_all_players_answered(games, tasks[t].c)
    /\ why = "deadline" => ~have_all_players_answered(games, tasks[t].c)
    /\ IF why = "deleted" THEN Spend(0, 1) ELSE UNCHANGED left
    /\ games' = handle_game_timeout(games, tasks[t].c)
    /\ tasks' = [tasks EXCEPT ![t].pc = "feedback"]
    /\ hist' = [hist EXCEPT ![tasks[t].c].ended = why]
    /\ UNCHANGED <<chans, managervars, poolvars, boardvars, active_countdowns, inflight, views>>

\* After the round's messages are sent: check_game_over.
FeedbackDone(t) ==
    /\ tasks[t].pc = "feedback"
    /\ tasks' = [tasks EXCEPT ![t].pc = IF check_game_over(games, tasks[t].c) THEN "results" ELSE "pause"]
    /\ UNCHANGED <<chans, managervars, left, poolvars, boardvars, games, active_countdowns, inflight, views, hist>>

\* After _show_game_results: cleanup_game, and the task is over.
ResultsDone(t) ==
    /\ tasks[t].pc = "results"
    /\ games' = cleanup_game(games, tasks[t].c)
    /\ TaskEnd(t)
    /\ UNCHANGED <<chans, managervars, left, poolvars, boardvars, inflight, views, hist>>

\* After the sleep between two rounds.
PauseDone(t) ==
    /\ tasks[t].pc = "pause"
    /\ RunRound(t, games)
    /\ UNCHANGED <<chans, managervars, left, boardvars, active_countdowns, inflight, views>>

\* After 'Error: ...' is sent for the ValueError of get_round_data: break, and
\* _run_game returns; when that send raised, the handler of any other exception runs.
FailDone(t, sent) ==
    /\ tasks[t].pc = "fail_send"
    /\ IF sent
       THEN TaskEnd(t) /\ UNCHANGED left
       ELSE /\ tasks' = [tasks EXCEPT ![t].pc = "crash_send"]
            /\ Spend(0, 1)
            /\ UNCHANGED active_countdowns
    /\ UNCHANGED <<chans, managervars, poolvars, boardvars, games, inflight, views, hist>>

\* The handler of any other exception in _run_game: a message, then cleanup_game.
CrashDone(t) ==
    /\ tasks[t].pc = "crash_send"
    /\ games' = cleanup_game(games, tasks[t].c)
    /\ TaskEnd(t)
    /\ UNCHANGED <<chans, managervars, left, poolvars, boardvars, inflight, views, hist>>

\* A press needs the lock of its view: the current view's lock is held by a callback
\* suspended on it, the older views are told apart only by their number.
ViewFree(c, cur) ==
    IF cur THEN views[c].cur /\ ~\E r \in inflight : r.c = c /\ r.cur
    ELSE views[c].old > Cardinality({r \in inflight : r.c = c /\ ~r.cur})

Corrects(g) == g.easy_correct + g.medium_correct + g.hard_correct

\* The callback suspends in an await with the game changed to g.
Suspend(c, g, r) ==
    /\ r \notin inflight
    /\ games' = [games EXCEPT ![c] = g]
    /\ inflight' = inflight \cup {r}

\* The answer to a press when _handle_answer does not look at timed_out_players.
SubmitResultNoDeadline(c, u) ==
    LET g == games[c]
    IN  IF g = NoGame THEN "NoSuchGame"
        ELSE IF u \in g.answered_players THEN "AlreadyAnswered"
        ELSE IF g.processing_answers THEN "Busy"
        ELSE IF u \notin Roster(g) THEN "Error"
        ELSE "Processed"

\* What a press is answered with, from the state it meets.
SubmitResult(c, u) ==
    LET g == games[c]
    IN  IF g = NoGame THEN "NoSuchGame"
        ELSE IF u \in g.answered_players THEN "AlreadyAnswered"
        ELSE IF u \in g.timed_out_players THEN "TooLate"
        ELSE IF g.processing_answers THEN "Busy"
        ELSE IF u \notin Roster(g) THEN "Error"
        ELSE "Processed"
\* button_callback with _handle_answer and process_answer, up to the first await that
\* leaves the game in a state other callbacks can meet.  correct: the button carries
\* the view's correct answer; fault: what the database does; dfail: the final
\* interaction.response.defer() raises.
Submit(c, u, cur, correct, fault, dfail) ==
    /\ c \in chans
    /\ ViewFree(c, cur)
    /\ LET g == games[c]
           res == SubmitResult(c, u)
           g1 == [g EXCEPT !.answered_players = @ \cup {u}]
           r(kind) == [c |-> c, u |-> u, sid |-> g.sid, kind |-> kind, cur |-> cur]
           Finish(g2) == IF dfail
                         THEN Suspend(c, [g2 EXCEPT !.processing_answers = FALSE], r("defer")) /\ Spend(0, 1)
                         ELSE /\ games' = [games EXCEPT ![c] = [g2 EXCEPT !.processing_answers = FALSE]]
                              /\ UNCHANGED <<inflight, left>>
       IN  /\ res \in {"NoSuchGame", "AlreadyAnswered"} \/
                  UNCHANGED <<chans, managervars, poolvars, active_countdowns, tasks, views>>
           /\ CASE res \in {"NoSuchGame", "AlreadyAnswered"} -> UNCHANGED vars
             [] res = "TooLate" ->
                  Suspend(c, g1, r("replied")) /\ Spend(0, 1) /\ UNCHANGED <<board, hist>>
             [] res = "Busy" ->
                  Suspend(c, g1, r("replied")) /\ Spend(0, 1) /\ UNCHANGED <<board, hist>>
             [] res = "Error" ->
                  \* game.players[player_id] raises KeyError; process_answer takes the
                  \* player out of answered_players again
                  Suspend(c, [g EXCEPT !.processing_answers = TRUE], r("failed")) /\ Spend(0, 1)
                  /\ UNCHANGED <<board, hist>>
             [] res = "Processed" /\ correct ->
                  /\ Corrects(g) < MaxCorrect
                  /\ \E d \in get_current_difficulty(g) :
                     LET g2 == reward(g1, u, d)
                     IN  \E db \in update_player_score(board, u, player_name(u), g2.players[u].score, fault) :
                            /\ board' = db.board
                            /\ hist' = [hist EXCEPT ![c] = Bump(@, u, TRUE)]
                            /\ IF db.raised
                               THEN /\ Suspend(c, [g2 EXCEPT !.answered_players = @ \ {u},
                                                             !.processing_answers = TRUE], r("failed"))
                                    /\ Spend(0, 1)
                               ELSE Finish(g2)
             [] res = "Processed" /\ ~correct ->
                  /\ g.players[u].lives > -MaxDebt
                  /\ hist' = [hist EXCEPT ![c] = Bump(@, u, FALSE)]
                  /\ Finish(penalize(g1, u))
                  /\ UNCHANGED board

\* A suspended callback is resumed.  kind "replied": it waits in a send_message of
\* _handle_answer; the flag is then cleared by the finally clause, defer() raises
\* InteractionResponded and the handler of button_callback takes the player out of
\* answered_players.  kind "defer": it waits in a defer() that raises; the same handler
\* runs.  All of it acts on the GameState the callback fetched.
CallbackResume(r) ==
    /\ r \in inflight
    /\ inflight' = inflight \ {r}
    /\ games' = IF games[r.c].sid = r.sid
                THEN [games EXCEPT ![r.c].answered_players = @ \ {r.u},
                                   ![r.c].processing_answers = IF r.kind = "defer" THEN @ ELSE FALSE]
                ELSE games
    /\ UNCHANGED <<chans, managervars, left, poolvars, boardvars, active_countdowns, tasks, views, hist>>

\* ==================================================================
\* The older engine: GameManager (services/game_manager.py) under the
\* commands of cogs/gta_quiz.py
\* ==================================================================
Player == [hp |-> STARTING_HP, correct_guesses |-> 0]
Loop(pc) == [pc |-> pc, correct_answer_given |-> FALSE, any_answer_given |-> FALSE,
             cancelled |-> FALSE]

\* A GameState object outlives its entry of GameManager.games in the run_game that
\* holds it: registered tells whether the entry is there.  Forget is the table once
\* the object of id is referenced by nothing.
InGames(G, id) == G[id] # NoSession /\ G[id].registered
Forget(G, id) == IF InGames(G, id) THEN G ELSE [G EXCEPT ![id] = NoSession]
HoldsGame(id) == gq_tasks[id].pc \in {"prepare", "post", "wait", "results", "sleep", "timeout_send"}

\* The scan of the start, join and stop commands: the games of a channel.
GamesOf(G, c) == {id \in GameIds : InGames(G, id) /\ G[id].channel_id = c}

\* GameManager.create_game up to its await: the game is entered under a fresh id.
manager_create_game(G, c, u, id) ==
    [G EXCEPT ![id] = [channel_id |-> c, registered |-> TRUE, players |-> [x \in {u} |-> Player],
                    is_active |-> FALSE]]

\* gq start without the scan for a game of the channel.
gq_start_unscanned(G, c, u, id) ==
    [games |-> manager_create_game(G, c, u, id), code |-> "Created"]

\* gq start up to the await inside create_game: the scan, then create_game.
gq_start(G, c, u, id) ==
    IF GamesOf(G, c) # {} THEN [games |-> G, code |-> "AlreadyRunning"]
    ELSE [games |-> manager_create_game(G, c, u, id), code |-> "Created"]

\* check_reaction: the reactions wait_for_reaction lets through.
check_reaction(id, u) ==
    /\ InGames(manager_games, id) /\ manager_games[id].is_active
    /\ u \in DOMAIN manager_games[id].players
    /\ u \notin answered_this_round[id]

\* process_wrong_answer on the game g: nothing without the entry or the player.
process_wrong_answer(g, u) ==
    IF g.registered /\ u \in DOMAIN g.players THEN [g EXCEPT !.players[u].hp = @ - 1] ELSE g

\* run_game from the end of the waiting loop to the await of send_round_results: every
\* player of the round who did not answer is handed to process_wrong_answer.
penalize_unanswered(g, answered) ==
    [g EXCEPT !.players = [u \in DOMAIN g.players |->
                              IF u \in answered THEN g.players[u]
                              ELSE process_wrong_answer(g, u).players[u]]]

RECURSIVE SumGuesses(_, _)
SumGuesses(g, S) ==
    IF S = {} THEN 0
    ELSE LET u == CHOOSE x \in S : TRUE
         IN  g.players[u].correct_guesses + SumGuesses(g, S \ {u})
Guesses(g) == SumGuesses(g, DOMAIN g.players)

is_game_over(g) == \A u \in DOMAIN g.players : g.players[u].hp <= 0

\* run_game's final_scores: the players of round_results, that is those who reacted
\* in the round and those handed to process_wrong_answer at its end, as far as they
\* are players of the game.
manager_final_scores(g, answered) ==
    [u \in (answered \cup (DOMAIN g.players \ answered)) \cap DOMAIN g.players |->
        [hp |-> g.players[u].hp, correct |-> g.players[u].correct_guesses]]

\* end_game up to its await of cleanup_game_messages, called by the task of game id;
\* without the game it returns at once and the task is over.
EndByTask(id, pc) ==
    IF ~InGames(manager_games, id)
    THEN /\ gq_tasks' = [gq_tasks EXCEPT ![id] = NoLoop]
         /\ manager_games' = Forget(manager_games, id)
         /\ UNCHANGED answered_this_round
    ELSE /\ gq_tasks' = [gq_tasks EXCEPT ![id].pc = pc, ![id].cancelled = FALSE]
         /\ manager_games' = [manager_games EXCEPT ![id].is_active = FALSE]
         /\ answered_this_round' = [answered_this_round EXCEPT ![id] = {}]

Runs(id, pc) == gq_tasks[id].pc = pc /\ ~gq_tasks[id].cancelled

\* gq start: the scan and create_game; the command then awaits send_game_start.
GqStart(c, u) ==
    /\ c \in chans
    /\ LET r == gq_start(manager_games, c, u, issued + 1)
       IN  IF r.code # "Created" THEN UNCHANGED vars
           ELSE /\ issued < MaxManagerGames
                /\ manager_games' = r.games
                /\ issued' = issued + 1
                /\ gq_tasks' = [gq_tasks EXCEPT ![issued + 1] = Loop("spawn")]
                /\ UNCHANGED <<chans, left, poolvars, boardvars, gamevars, answered_this_round, enders>>

\* gq start after send_game_start: the run_countdown task is created and entered in
\* active_countdowns; without a message the task returns at its first test.
GqSpawnDone(id, sent) ==
    /\ gq_tasks[id].pc = "spawn"
    /\ gq_tasks' = [gq_tasks EXCEPT ![id] = IF sent THEN Loop("countdown") ELSE NoLoop]
    /\ UNCHANGED <<chans, left, poolvars, boardvars, gamevars, manager_games, answered_this_round, enders, issued>>

\* gq join: refused for an active game and for a player of the game.
GqJoin(c, u) ==
    /\ c \in chans
    /\ \E id \in GamesOf(manager_games, c) :
          /\ ~manager_games[id].is_active
          /\ u \notin DOMAIN manager_games[id].players
          /\ manager_games' = [manager_games EXCEPT ![id].players =
                                  [x \in DOMAIN @ \cup {u} |-> IF x = u THEN Player ELSE @[x]]]
    /\ UNCHANGED <<chans, left, poolvars, boardvars, gamevars, answered_this_round, gq_tasks, enders, issued>>

\* gq stop: the task entered in active_countdowns is cancelled, then end_game up to
\* its await.
GqStop(c) ==
    /\ c \in chans
    /\ \E id \in GamesOf(manager_games, c) :
          /\ gq_tasks' = IF gq_tasks[id].pc \in {"none", "spawn"} THEN gq_tasks
                         ELSE [gq_tasks EXCEPT ![id].cancelled = TRUE]
          /\ manager_games' = [manager_games EXCEPT ![id].is_active = FALSE]
          /\ answered_this_round' = [answered_this_round EXCEPT ![id] = {}]
          /\ enders' = enders \cup {id}
    /\ UNCHANGED <<chans, left, poolvars, boardvars, gamevars, issued>>

\* end_game of a stop command resumed: del self.games[game_id] (a KeyError when the
\* game is gone is caught).
GqStopDone(id) ==
    /\ id \in enders
    /\ enders' = enders \ {id}
    /\ manager_games' = IF manager_games[id] = NoSession THEN manager_games
                        ELSE IF HoldsGame(id) THEN [manager_games EXCEPT ![id].registered = FALSE]
                        ELSE [manager_games EXCEPT ![id] = NoSession]
    /\ UNCHANGED <<chans, left, poolvars, boardvars, gamevars, answered_this_round, gq_tasks, issued>>

\* The cancelled task is resumed with CancelledError: in the countdown and inside an
\* end_game it ends (end_game does not reach its del), inside run_game the finally
\* clause calls end_game.
GqCancelled(id) ==
    /\ gq_tasks[id].pc # "none" /\ gq_tasks[id].cancelled
    /\ IF gq_tasks[id].pc \in {"countdown", "end"}
       THEN /\ gq_tasks' = [gq_tasks EXCEPT ![id] = NoLoop]
            /\ UNCHANGED <<manager_games, answered_this_round>>
       ELSE EndByTask(id, "end")
    /\ UNCHANGED <<chans, left, poolvars, boardvars, gamevars, enders, issued>>

\* run_countdown after its last sleep: GameManager.start_game, and run_game up to the
\* await of prepare_round.
GqCountdownDone(id) ==
    /\ Runs(id, "countdown")
    /\ IF ~InGames(manager_games, id)
       THEN /\ gq_tasks' = [gq_tasks EXCEPT ![id] = NoLoop]
            /\ UNCHANGED manager_games
       ELSE /\ manager_games' = [manager_games EXCEPT ![id].is_active = TRUE]
            /\ gq_tasks' = [gq_tasks EXCEPT ![id].pc = "prepare"]
    /\ UNCHANGED <<chans, left, poolvars, boardvars, gamevars, answered_this_round, enders, issued>>

\* prepare_round returned: without round data the loop is left and the finally clause
\* calls end_game; else answered_this_round is reset and handle_round awaited.
GqPrepared(id, ok) ==
    /\ Runs(id, "prepare")
    /\ IF ok
       THEN /\ gq_tasks' = [gq_tasks EXCEPT ![id].pc = "post"]
            /\ answered_this_round' = [answered_this_round EXCEPT ![id] = {}]
            /\ UNCHANGED manager_games
       ELSE EndByTask(id, "end")
    /\ UNCHANGED <<chans, left, poolvars, boardvars, gamevars, enders, issued>>

\* handle_round returned the round's message, or None.
GqPosted(id, ok) ==
    /\ Runs(id, "post")
    /\ IF ok
       THEN /\ gq_tasks' = [gq_tasks EXCEPT ![id].pc = "wait", ![id].correct_answer_given = FALSE,
                                            ![id].any_answer_given = FALSE]
            /\ UNCHANGED <<manager_games, answered_this_round>>
       ELSE EndByTask(id, "end")
    /\ UNCHANGED <<chans, left, poolvars, boardvars, gamevars, enders, issued>>

\* wait_for_reaction returned a reaction that check_reaction let through; run_game up
\* to its next await: the next wait_for_reaction, or send_round_results once a correct
\* answer was given or every player of the round has answered.
GqReact(id, u, correct) ==
    /\ Runs(id, "wait")
    /\ check_reaction(id, u)
    /\ correct => Guesses(manager_games[id]) < MaxGuesses
    /\ LET g == manager_games[id]
           answered == answered_this_round[id] \cup {u}
           g1 == IF correct THEN [g EXCEPT !.players[u].correct_guesses = @ + 1]
                 ELSE process_wrong_answer(g, u)
           over == correct \/ Cardinality(answered) >= Cardinality(DOMAIN g.players)
       IN  /\ answered_this_round' = [answered_this_round EXCEPT ![id] = answered]
           /\ manager_games' = [manager_games EXCEPT ![id] =
                                   IF over THEN penalize_unanswered(g1, answered) ELSE g1]
           /\ gq_tasks' = [gq_tasks EXCEPT ![id].pc = IF over THEN "results" ELSE "wait",
                                           ![id].correct_answer_given = correct,
                                           ![id].any_answer_given = TRUE]
    /\ UNCHANGED <<chans, left, poolvars, boardvars, gamevars, enders, issued>>

\* wait_for_reaction raised TimeoutError: without any answer the timeout message is
\* sent and the game ended; else the loop is left as above.
GqTimeout(id) ==
    /\ Runs(id, "wait")
    /\ IF gq_tasks[id].any_answer_given
       THEN /\ manager_games' = [manager_games EXCEPT ![id] =
                                    penalize_unanswered(@, answered_this_round[id])]
            /\ gq_tasks' = [gq_tasks EXCEPT ![id].pc = "results"]
       ELSE /\ gq_tasks' = [gq_tasks EXCEPT ![id].pc = "timeout_send"]
            /\ UNCHANGED manager_games
    /\ UNCHANGED <<chans, left, poolvars, boardvars, gamevars, answered_this_round, enders, issued>>

\* After send_timeout_message: end_game.
GqTimeoutSent(id) ==
    /\ Runs(id, "timeout_send")
    /\ EndByTask(id, "timeout_end")
    /\ UNCHANGED <<chans, left, poolvars, boardvars, gamevars, enders, issued>>

\* After send_round_results: the loop is left when every player's hp is at most 0 or
\* check_game_continuation says so; else the sleep between two rounds.
GqResultsSent(id) ==
    /\ Runs(id, "results")
    /\ IF \/ is_game_over(manager_games[id])
          \/ ~(InGames(manager_games, id) /\ manager_games[id].is_active)
       THEN EndByTask(id, "end")
       ELSE /\ gq_tasks' = [gq_tasks EXCEPT ![id].pc = "sleep"]
            /\ UNCHANGED <<manager_games, answered_this_round>>
    /\ UNCHANGED <<chans, left, poolvars, boardvars, gamevars, enders, issued>>

\* After the sleep: the test of the outer loop.
GqSleepDone(id) ==
    /\ Runs(id, "sleep")
    /\ IF manager_games[id].is_active
       THEN /\ \A u \in DOMAIN manager_games[id].players :
                  manager_games[id].players[u].hp > -MaxDebt
            /\ gq_tasks' = [gq_tasks EXCEPT ![id].pc = "prepare"]
            /\ UNCHANGED <<manager_games, answered_this_round>>
       ELSE EndByTask(id, "end")
    /\ UNCHANGED <<chans, left, poolvars, boardvars, gamevars, enders, issued>>

\* end_game of the task resumed: del self.games[game_id]; the task is over (after the
\* end_game of the timeout the finally clause finds no game).
GqEndDone(id) ==
    /\ Runs(id, "end") \/ Runs(id, "timeout_end")
    /\ manager_games' = [manager_games EXCEPT ![id] = NoSession]
    /\ gq_tasks' = [gq_tasks EXCEPT ![id] = NoLoop]
    /\ UNCHANGED <<chans, left, poolvars, boardvars, gamevars, answered_this_round, enders, issued>>

InitManager ==
    /\ manager_games = [id \in GameIds |-> NoSession]
    /\ answered_this_round = [id \in GameIds |-> {}]
    /\ gq_tasks = [id \in GameIds |-> NoLoop]
    /\ enders = {}
    /\ issued = 0

\* ==================================================================
\* The bot with one text channel
\* ==================================================================
InitGame ==
    /\ games = [c \in Channels |-> NoGame]
    /\ active_countdowns = [c \in Channels |-> 0]
    /\ tasks = [t \in TaskIds |-> NoTask]
    /\ inflight = {}
    /\ views = [c \in Channels |-> [cur |-> FALSE, old |-> 0]]
    /\ hist = [c \in Channels |-> NewHist(NoGame)]

\* The one-channel bot, the start-up preload over.
Init ==
    /\ chans = {1}
    /\ left = [games |-> MaxGames, incidents |-> MaxIncidents]
    /\ anime_names = NoNames
    /\ round_data = NoRound
    /\ preload_count = DefaultPreloadCount
    /\ catalog = [cat \in Categories |-> IF cat = "easy" THEN {1} ELSE {}]
    /\ preloaded_images = [cat \in Categories |-> IF cat = "easy" THEN <<1>> ELSE <<>>]
    /\ used_images = catalog
    /\ preload_tasks = [cat \in Categories |-> 0]
    /\ fills = [f \in FillIds |-> NoFill]
    /\ served = [cat \in Categories |-> {}]
    /\ dup_served = FALSE
    /\ board = [u \in Members |-> NoEntry]
    /\ InitGame
    /\ InitManager

Next ==
    \/ \E f \in FillIds : FillStart(f)
    \/ \E f \in FillIds : FillDone(f)
    \/ \E c \in Channels, u \in Starters, d \in DifficultyInputs : StartCmd(c, u, d, FALSE)
    \/ \E c \in Channels, u \in Starters : StartCmd(c, u, "normal", TRUE)
    \/ \E t \in TaskIds, sent \in BOOLEAN : SpawnDone(t, sent)
    \/ \E c \in Channels, u \in Users : JoinCmd(c, u)
    \/ \E c \in Channels, u \in Users : StopCmd(c, u)
    \/ \E t \in TaskIds : CountdownDone(t)
    \/ \E t \in TaskIds : PrepResume(t)
    \/ \E t \in TaskIds, result \in {"ok", "noimg", "crash"} : LoadDone(t, result)
    \/ \E t \in TaskIds : NoImgDone(t)
    \/ \E t \in TaskIds, why \in RoundExits : RoundEnd(t, why)
    \/ \E t \in TaskIds : FeedbackDone(t)
    \/ \E t \in TaskIds : ResultsDone(t)
    \/ \E t \in TaskIds : PauseDone(t)
    \/ \E t \in TaskIds, sent \in BOOLEAN : FailDone(t, sent)
    \/ \E t \in TaskIds : CrashDone(t)
    \/ \E c \in Channels, u \in Users, cur \in BOOLEAN :
          \E correct \in IF SubmitResult(c, u) = "Processed" THEN BOOLEAN ELSE {FALSE} :
          \E fault \in IF correct THEN DbFaults ELSE {"none"} :
          \E dfail \in IF SubmitResult(c, u) = "Processed" /\ fault = "none" THEN BOOLEAN ELSE {FALSE} :
             Submit(c, u, cur, correct, fault, dfail)
    \/ \E r \in inflight : CallbackResume(r)

Spec == Init /\ [][Next]_vars

\* ==================================================================
\* The one-channel bot when no call to Discord, to the database or to
\* the image host fails: the only incidents are presses that are turned
\* away or that come from a user who is not in the roster
\* ==================================================================
InitPress ==
    /\ chans = {1}
    /\ left = [games |-> MaxGames, incidents |-> MaxPressIncidents]
    /\ anime_names = NoNames
    /\ round_data = NoRound
    /\ preload_count = DefaultPreloadCount
    /\ catalog = [cat \in Categories |-> IF cat = "easy" THEN {1} ELSE {}]
    /\ preloaded_images = [cat \in Categories |-> IF cat = "easy" THEN <<1>> ELSE <<>>]
    /\ used_images = catalog
    /\ preload_tasks = [cat \in Categories |-> 0]
    /\ fills = [f \in FillIds |-> NoFill]
    /\ served = [cat \in Categories |-> {}]
    /\ dup_served = FALSE
    /\ board = [u \in Members |-> NoEntry]
    /\ InitGame
    /\ InitManager

NextPress ==
    \/ \E f \in FillIds : FillStart(f)
    \/ \E f \in FillIds : FillDone(f)
    \/ \E c \in Channels, u \in Starters, d \in DifficultyInputs : StartCmd(c, u, d, FALSE)
    \/ \E t \in TaskIds : SpawnDone(t, TRUE)
    \/ \E c \in Channels, u \in Users : JoinCmd(c, u)
    \/ \E t \in TaskIds : CountdownDone(t)
    \/ \E t \in TaskIds : PrepResume(t)
    \/ \E t \in TaskIds : LoadDone(t, "ok")
    \/ \E t \in TaskIds, why \in {"answered", "deadline"} : RoundEnd(t, why)
    \/ \E t \in TaskIds : FeedbackDone(t)
    \/ \E t \in TaskIds : ResultsDone(t)
    \/ \E t \in TaskIds : PauseDone(t)
    \/ \E t \in TaskIds : FailDone(t, TRUE)
    \/ \E c \in Channels, u \in Users, cur \in BOOLEAN :
          \E correct \in IF SubmitResult(c, u) = "Processed" THEN BOOLEAN ELSE {FALSE} :
             Submit(c, u, cur, correct, "none", FALSE)
    \/ \E r \in inflight : CallbackResume(r)

SpecPress == InitPress /\ [][NextPress]_vars

\* ==================================================================
\* The progression of one session under joins, its start, rounds drawn
\* and answers rewarded
\* ==================================================================
\* The end of _run_countdown: start_game.
BeginGame(t) ==
    /\ tasks[t].pc = "countdown"
    /\ games' = start_game(games, tasks[t].c)
    /\ tasks' = [tasks EXCEPT ![t].pc = "collect"]
    /\ UNCHANGED <<chans, managervars, left, poolvars, boardvars, active_countdowns, inflight, views, hist>>

\* The head of get_round_data: the round's tier is what get_current_difficulty returns.
DrawTier(t) ==
    /\ tasks[t].pc = "collect" /\ games[tasks[t].c] # NoGame
    /\ \E d \in get_current_difficulty(games[tasks[t].c]) : tasks' = [tasks EXCEPT ![t].cat = d]
    /\ UNCHANGED <<chans, managervars, left, poolvars, boardvars, games, active_countdowns, inflight, views, hist>>

\* The correct branch of process_answer, the leaderboard left aside.
RewardAnswer(c, u) ==
    /\ games[c] # NoGame /\ games[c].is_active /\ u \in Roster(games[c])
    /\ Corrects(games[c]) < MaxProgress
    /\ \E d \in get_current_difficulty(games[c]) : games' = [games EXCEPT ![c] = reward(@, u, d)]
    /\ UNCHANGED <<chans, managervars, left, poolvars, boardvars, active_countdowns, tasks, inflight, views, hist>>

InitProgression ==
    /\ chans = {1}
    /\ left = [games |-> 0, incidents |-> 0]
    /\ anime_names = NoNames
    /\ round_data = NoRound
    /\ preload_count = DefaultPreloadCount
    /\ catalog = [cat \in Categories |-> {}]
    /\ preloaded_images = [cat \in Categories |-> <<>>]
    /\ used_images = [cat \in Categories |-> {}]
    /\ preload_tasks = [cat \in Categories |-> 0]
    /\ fills = [f \in FillIds |-> NoFill]
    /\ served = [cat \in Categories |-> {}]
    /\ dup_served = FALSE
    /\ board = [u \in Members |-> NoEntry]
    /\ \E difficulty \in {"easy", "MEDIUM", "hArD", ""} :
          games = create_game([c \in Channels |-> NoGame], 1, 1, difficulty, 1).games
    /\ active_countdowns = [c \in Channels |-> IF c = 1 THEN 1 ELSE 0]
    /\ tasks = [t \in TaskIds |-> IF t = 1 THEN Task(1, "countdown", "none", <<>>, 0) ELSE NoTask]
    /\ inflight = {}
    /\ views = [c \in Channels |-> [cur |-> FALSE, old |-> 0]]
    /\ hist = [c \in Channels |-> NewHist(NoGame)]
    /\ InitManager

NextProgression ==
    \/ \E c \in Channels, u \in Users : JoinCmd(c, u)
    \/ \E t \in TaskIds : BeginGame(t)
    \/ \E t \in TaskIds : DrawTier(t)
    \/ \E c \in Channels, u \in Users : RewardAnswer(c, u)

SpecProgression == InitProgression /\ [][NextProgression]_vars

\* ==================================================================
\* The preloader under two channels whose players never press a button
\* ==================================================================

\* The state once GTAGameService is constructed and initialize() has run up to its
\* awaits: the category that has rows has its start-up _preload_batch in flight.
InitPool ==
    /\ chans = {1, 2}
    /\ left = [games |-> MaxPoolGames, incidents |-> 0]
    /\ anime_names = NoNames
    /\ round_data = NoRound
    /\ preload_count = DefaultPreloadCount
    /\ catalog = [cat \in Categories |-> IF cat = "easy" THEN ImageIds ELSE {}]
    /\ preloaded_images = [cat \in Categories |-> <<>>]
    /\ used_images = [cat \in Categories |-> {}]
    /\ preload_tasks = [cat \in Categories |-> 0]
    /\ \E data \in get_images_batch("easy", {}) :
          fills = [f \in FillIds |-> IF f = 1 THEN [phase |-> "wait", cat |-> "easy", data |-> data]
                                     ELSE NoFill]
    /\ served = [cat \in Categories |-> {}]
    /\ dup_served = FALSE
    /\ board = [u \in Members |-> NoEntry]
    /\ InitGame
    /\ InitManager

NextPool ==
    \/ \E f \in FillIds : FillStart(f)
    \/ \E f \in FillIds : FillDone(f)
    \/ \E c \in Channels, u \in Starters : StartCmd(c, u, "easy", FALSE)
    \/ \E t \in TaskIds : SpawnDone(t, TRUE)
    \/ \E c \in Channels, u \in Starters : StopCmd(c, u)
    \/ \E t \in TaskIds : CountdownDone(t)
    \/ \E t \in TaskIds : PrepResume(t)
    \/ \E t \in TaskIds : LoadDone(t, "ok")
    \/ \E t \in TaskIds, why \in {"answered", "deadline"} : RoundEnd(t, why)
    \/ \E t \in TaskIds : FeedbackDone(t)
    \/ \E t \in TaskIds : ResultsDone(t)
    \/ \E t \in TaskIds : PauseDone(t)

SpecPool == InitPool /\ [][NextPool]_vars

\* ==================================================================
\* The preloader built with a target size smaller than its catalog,
\* ImagePreloader(provider, preload_count), under the games of one channel
\* ==================================================================
InitSmallPool ==
    /\ chans = {1}
    /\ left = [games |-> MaxPoolGames, incidents |-> 0]
    /\ anime_names = NoNames
    /\ round_data = NoRound
    /\ preload_count = SmallPreloadCount
    /\ catalog = [cat \in Categories |-> IF cat = "easy" THEN 1..SmallCatalog ELSE {}]
    /\ preloaded_images = [cat \in Categories |-> <<>>]
    /\ used_images = [cat \in Categories |-> {}]
    /\ preload_tasks = [cat \in Categories |-> 0]
    /\ \E data \in get_images_batch("easy", {}) :
          fills = [f \in FillIds |-> IF f = 1 THEN [phase |-> "wait", cat |-> "easy", data |-> data]
                                     ELSE NoFill]
    /\ served = [cat \in Categories |-> {}]
    /\ dup_served = FALSE
    /\ board = [u \in Members |-> NoEntry]
    /\ InitGame
    /\ InitManager

SpecSmallPool == InitSmallPool /\ [][NextPool]_vars

\* ==================================================================
\* Two channels with one game each, played without failing calls
\* ==================================================================
\* The service's operations called from outside the round loop, each on its channel.
CreateGame(c, u) ==
    /\ c \in chans
    /\ LET r == create_game(games, c, u, "", NextSid)
       IN  /\ r.code = "Created"
           /\ games' = r.games
           /\ hist' = [hist EXCEPT ![c] = NewHist(r.games[c])]
    /\ Spend(1, 0)
    /\ UNCHANGED <<chans, managervars, poolvars, boardvars, active_countdowns, tasks, inflight, views>>

StartGame(c) ==
    /\ games[c] # NoGame /\ ~games[c].is_active
    /\ games' = start_game(games, c)
    /\ UNCHANGED <<chans, managervars, left, poolvars, boardvars, active_countdowns, tasks, inflight, views, hist>>

HandleTimeout(c) ==
    /\ games[c] # NoGame /\ games[c].is_active
    /\ games' = handle_game_timeout(games, c)
    /\ UNCHANGED <<chans, managervars, left, poolvars, boardvars, active_countdowns, tasks, inflight, views, hist>>

NextRound(c) ==
    /\ games[c] # NoGame /\ games[c].is_active
    /\ games' = start_next_round(games, c)
    /\ UNCHANGED <<chans, managervars, left, poolvars, boardvars, active_countdowns, tasks, inflight, views, hist>>

StopGame(c, u) ==
    /\ games[c] # NoGame
    /\ games' = stop_game(games, c, u).games
    /\ UNCHANGED <<chans, managervars, left, poolvars, boardvars, active_countdowns, tasks, inflight, views, hist>>

CleanupGame(c) ==
    /\ games[c] # NoGame /\ get_active_players(games[c]) = {}
    /\ games' = cleanup_game(games, c)
    /\ UNCHANGED <<chans, managervars, left, poolvars, boardvars, active_countdowns, tasks, inflight, views, hist>>

\* Two channels; each still shows the answer view of an earlier game (views never
\* expire), so presses reach the service whenever the channel has a session.
InitChannels ==
    /\ chans = {1, 2}
    /\ left = [games |-> MaxPoolGames, incidents |-> 0]
    /\ anime_names = NoNames
    /\ round_data = NoRound
    /\ preload_count = DefaultPreloadCount
    /\ catalog = [cat \in Categories |-> IF cat = "easy" THEN {1} ELSE {}]
    /\ preloaded_images = [cat \in Categories |-> IF cat = "easy" THEN <<1>> ELSE <<>>]
    /\ used_images = catalog
    /\ preload_tasks = [cat \in Categories |-> 0]
    /\ fills = [f \in FillIds |-> NoFill]
    /\ served = [cat \in Categories |-> {}]
    /\ dup_served = FALSE
    /\ board = [u \in Members |-> NoEntry]
    /\ games = [c \in Channels |-> NoGame]
    /\ active_countdowns = [c \in Channels |-> 0]
    /\ tasks = [t \in TaskIds |-> NoTask]
    /\ inflight = {}
    /\ views = [c \in Channels |-> [cur |-> FALSE, old |-> 1]]
    /\ hist = [c \in Channels |-> NewHist(NoGame)]
    /\ InitManager

\* Channel 1 takes a second player, channel 2 is played by its creator alone.
NextChannels ==
    \/ \E c \in Channels, u \in Starters : CreateGame(c, u)
    \/ \E u \in Users : JoinCmd(1, u)
    \/ \E c \in Channels : StartGame(c)
    \/ \E c \in Channels, u \in Users, correct \in BOOLEAN :
          Submit(c, u, FALSE, correct, "none", FALSE)
    \/ \E c \in Channels : HandleTimeout(c)
    \/ \E c \in Channels : NextRound(c)
    \/ \E c \in Channels, u \in Users : StopGame(c, u)
    \/ \E c \in Channels : CleanupGame(c)

SpecChannels == InitChannels /\ [][NextChannels]_vars

\* ==================================================================
\* One channel where gta start and gta stop are sent while a start is still posting
\* its join message; no call fails, the medium tier has no images
\* ==================================================================
InitTable ==
    /\ chans = {1}
    /\ left = [games |-> MaxPoolGames, incidents |-> 0]
    /\ anime_names = NoNames
    /\ round_data = NoRound
    /\ preload_count = DefaultPreloadCount
    /\ catalog = [cat \in Categories |-> IF cat = "easy" THEN {1} ELSE {}]
    /\ preloaded_images = [cat \in Categories |-> IF cat = "easy" THEN <<1>> ELSE <<>>]
    /\ used_images = catalog
    /\ preload_tasks = [cat \in Categories |-> 0]
    /\ fills = [f \in FillIds |-> NoFill]
    /\ served = [cat \in Categories |-> {}]
    /\ dup_served = FALSE
    /\ board = [u \in Members |-> NoEntry]
    /\ InitGame
    /\ InitManager

NextTable ==
    \/ \E f \in FillIds : FillStart(f)
    \/ \E f \in FillIds : FillDone(f)
    \/ \E c \in Channels, u \in Starters, d \in {"easy", "MEDIUM"} : StartCmd(c, u, d, FALSE)
    \/ \E t \in TaskIds : SpawnDone(t, TRUE)
    \/ \E c \in Channels, u \in Starters : StopCmd(c, u)
    \/ \E t \in TaskIds : CountdownDone(t)
    \/ \E t \in TaskIds : PrepResume(t)
    \/ \E t \in TaskIds : LoadDone(t, "ok")
    \/ \E t \in TaskIds, why \in {"answered", "deadline"} : RoundEnd(t, why)
    \/ \E t \in TaskIds : FeedbackDone(t)
    \/ \E t \in TaskIds : ResultsDone(t)
    \/ \E t \in TaskIds : PauseDone(t)
    \/ \E t \in TaskIds : FailDone(t, TRUE)
    \/ \E t \in TaskIds : CrashDone(t)

SpecTable == InitTable /\ [][NextTable]_vars

\* ==================================================================
\* The rows and options of rounds over every content of a tier's name column
\* ==================================================================
otherpoolvars == <<catalog, preload_count, preloaded_images, used_images, preload_tasks,
                   fills, served, dup_served>>

\* get_images_batch returns a row named name with its wrong options.
FetchRow(name) ==
    /\ anime_names[name] > 0
    /\ \E w \in wrong_options(anime_names, name) :
          round_data' = [anime_name |-> name, wrong_options |-> w, options |-> <<>>]
    /\ UNCHANGED <<chans, left, anime_names, otherpoolvars, boardvars, gamevars, managervars>>

\* get_round_data builds the options of the round that shows the row.
MakeOptions ==
    /\ round_data.anime_name # "" /\ round_data.options = <<>>
    /\ \E o \in round_options(round_data.anime_name, round_data.wrong_options) :
          round_data' = [round_data EXCEPT !.options = o]
    /\ UNCHANGED <<chans, left, anime_names, otherpoolvars, boardvars, gamevars, managervars>>

InitOptions ==
    /\ chans = {}
    /\ left = [games |-> 0, incidents |-> 0]
    /\ anime_names \in [AnimeNames -> 0..MaxCopies]
    /\ round_data = NoRound
    /\ preload_count = DefaultPreloadCount
    /\ catalog = [cat \in Categories |-> {}]
    /\ preloaded_images = [cat \in Categories |-> <<>>]
    /\ used_images = [cat \in Categories |-> {}]
    /\ preload_tasks = [cat \in Categories |-> 0]
    /\ fills = [f \in FillIds |-> NoFill]
    /\ served = [cat \in Categories |-> {}]
    /\ dup_served = FALSE
    /\ board = [u \in Members |-> NoEntry]
    /\ InitGame
    /\ InitManager

NextOptions ==
    \/ \E name \in AnimeNames : FetchRow(name)
    \/ MakeOptions

SpecOptions == InitOptions /\ [][NextOptions]_vars

\* ==================================================================
\* The leaderboard under calls of update_player_score
\* ==================================================================
UpdateScore(u, display_name, score, fault) ==
    /\ \E db \in update_player_score(board, u, display_name, score, fault) : board' = db.board
    /\ UNCHANGED <<chans, managervars, left, poolvars, gamevars>>

InitBoard ==
    /\ chans = {}
    /\ left = [games |-> 0, incidents |-> 0]
    /\ anime_names = NoNames
    /\ round_data = NoRound
    /\ preload_count = DefaultPreloadCount
    /\ catalog = [cat \in Categories |-> {}]
    /\ preloaded_images = [cat \in Categories |-> <<>>]
    /\ used_images = [cat \in Categories |-> {}]
    /\ preload_tasks = [cat \in Categories |-> 0]
    /\ fills = [f \in FillIds |-> NoFill]
    /\ served = [cat \in Categories |-> {}]
    /\ dup_served = FALSE
    /\ board = [u \in Members |-> NoEntry]
    /\ InitGame
    /\ InitManager

NextBoard ==
    \E u \in Members, display_name \in DisplayNames, score \in 0..MaxScore, fault \in DbFaults :
       UpdateScore(u, display_name, score, fault)

SpecBoard == InitBoard /\ [][NextBoard]_vars

\* ==================================================================
\* The older engine under its commands and reactions
\* ==================================================================
InitOlder ==
    /\ chans = {1}
    /\ left = [games |-> 0, incidents |-> 0]
    /\ anime_names = NoNames
    /\ round_data = NoRound
    /\ preload_count = DefaultPreloadCount
    /\ catalog = [cat \in Categories |-> {}]
    /\ preloaded_images = [cat \in Categories |-> <<>>]
    /\ used_images = [cat \in Categories |-> {}]
    /\ preload_tasks = [cat \in Categories |-> 0]
    /\ fills = [f \in FillIds |-> NoFill]
    /\ served = [cat \in Categories |-> {}]
    /\ dup_served = FALSE
    /\ board = [u \in Members |-> NoEntry]
    /\ InitGame
    /\ InitManager

NextOlder ==
    \/ \E c \in Channels, u \in Users : GqStart(c, u)
    \/ \E id \in GameIds, sent \in BOOLEAN : GqSpawnDone(id, sent)
    \/ \E c \in Channels, u \in Users : GqJoin(c, u)
    \/ \E c \in Channels : GqStop(c)
    \/ \E id \in GameIds : GqStopDone(id)
    \/ \E id \in GameIds : GqCancelled(id)
    \/ \E id \in GameIds : GqCountdownDone(id)
    \/ \E id \in GameIds, ok \in BOOLEAN : GqPrepared(id, ok)
    \/ \E id \in GameIds, ok \in BOOLEAN : GqPosted(id, ok)
    \/ \E id \in GameIds, u \in Users, correct \in BOOLEAN : GqReact(id, u, correct)
    \/ \E id \in GameIds : GqTimeout(id)
    \/ \E id \in GameIds : GqTimeoutSent(id)
    \/ \E id \in GameIds : GqResultsSent(id)
    \/ \E id \in GameIds : GqSleepDone(id)
    \/ \E id \in GameIds : GqEndDone(id)

SpecOlder == InitOlder /\ [][NextOlder]_vars

\* ==================================================================
\* Properties
\* ==================================================================
Live(c) == {t \in TaskIds : tasks[t] # NoTask /\ tasks[t].c = c}
SameGame(c) == games[c] # NoGame /\ games'[c] # NoGame /\ games'[c].sid = games[c].sid

\* C1: create_game on a channel that has a session answers AlreadyRunning and leaves
\* the table of sessions, hence the session with its creator, roster, lives, scores
\* and state, as it was; the table holds one session per channel at most, being keyed
\* by the channel.
C1_AlreadyRunning ==
    \A c \in chans : games[c] # NoGame =>
        \A u \in Users, d \in DifficultyInputs \cup {""} :
            LET r == create_game(games, c, u, d, NextSid)
            IN  r.code = "AlreadyRunning" /\ r.games = games

\* A start command that gets as far as create_game meets a session with two players,
\* one of them with a point and the other with a life lost.
C1_Witness ==
    /\ games[1] # NoGame /\ active_countdowns[1] = 0
    /\ Roster(games[1]) = {1, 2}
    /\ games[1].players[1].score > 0
    /\ games[1].players[2].lives < StartingLives

\* C2 (as the specification states it): once a submission of a player was processed in
\* a round, no later press of a button in that round changes the player's lives or
\* score.
C2_ChangeOncePerRound ==
    [][\A c \in Channels : \A u \in Users :
          (/\ SameGame(c)
           /\ u \in hist[c].hit
           /\ games'[c].timed_out_players = games[c].timed_out_players)
          => games'[c].players[u] = games[c].players[u]]_vars

\* C3 (as the specification states it): once a player was rewarded in a round, the
\* players no submission of whom was processed yet keep their lives and their score
\* for the rest of the round.
C3_WinEndsRound ==
    [][\A c \in Channels : \A u \in Users :
          (/\ SameGame(c)
           /\ hist[c].won # {}
           /\ u \in Roster(games[c]) \ hist[c].hit)
          => games'[c].players[u] = games[c].players[u]]_vars

\* C4 (as the specification states it): at most one player is rewarded in a round.
C4_OneWinner == \A c \in Channels : Cardinality(hist[c].won) <= 1

\* C5 (as the specification states it): no player's lives are below 0.
C5_LivesNonNegative ==
    \A c \in Channels : games[c] # NoGame =>
        \A u \in Roster(games[c]) : games[c].players[u].lives >= 0

\* C6 (as the specification states it): answered_players holds players of the roster
\* only and, once the round's time is up, only players who had a life left when the
\* round began.
C6_AnsweredAreActive ==
    \A c \in Channels : games[c] # NoGame =>
        /\ games[c].answered_players \subseteq Roster(games[c])
        /\ \A t \in Live(c) : tasks[t].pc = "feedback" =>
              games[c].answered_players \subseteq hist[c].active0

\* C7 (as the specification states it): get_next_image returns no id twice between two
\* cleanup_category calls of the category.
C7_NoRepeat == dup_served = FALSE

RanksDense(B) ==
    LET E == Entries(B)
    IN  /\ \A a \in E : B[a].place \in 1..Cardinality(E)
        /\ \A a, b \in E : a # b => B[a].place # B[b].place
        /\ \A a, b \in E : B[a].place < B[b].place => B[a].highest_score >= B[b].highest_score

\* C8: whatever the table holds, a call of update_player_score that inserts a row or
\* stores a higher score, and returns, leaves the N rows with the places 1..N, each
\* once, a smaller place never with a strictly lower highest_score, and no place 0.
C8_RanksAfterUpdate ==
    \A u \in Members, display_name \in DisplayNames, score \in 0..MaxScore :
        \A db \in update_player_score(board, u, display_name, score, "none") :
            db.board[u].highest_score # board[u].highest_score => RanksDense(db.board)

\* Three calls have stored three rows, two of them with the same score.
C8_Witness ==
    /\ Entries(board) = Members
    /\ board[1].highest_score = board[2].highest_score
    /\ board[3].highest_score > board[1].highest_score
    /\ RanksDense(board)

\* C9 (as the specification states it): the game task never waits to start another
\* round after a round in which no submission was processed.
C9_SilentRoundEndsGame ==
    \A c \in Channels : \A t \in Live(c) : tasks[t].pc = "pause" => hist[c].hit # {}

\* C10 (as the specification states it): while no send and no query has failed, a
\* started session that is still registered has its game task; in particular the
\* session is not left registered by a round preparation that found no image.
C10_NoCandidatesEndsSession ==
    \A c \in Channels :
        (games[c] # NoGame /\ games[c].is_active /\ left.incidents = MaxIncidents)
            => Live(c) # {}

\* ------------------------------------------------------------------
\* The same claims in the older engine (GameManager), under SpecOlder
\* ------------------------------------------------------------------

\* C1, older engine: gq start in a channel that has a game creates nothing and changes
\* nothing, and no channel has two games in GameManager.games.
C1_OlderOnePerChannel ==
    /\ \A c \in Channels : Cardinality(GamesOf(manager_games, c)) <= 1
    /\ \A c \in chans : GamesOf(manager_games, c) # {} =>
          \A u \in Users :
             gq_start(manager_games, c, u, issued + 1) = [games |-> manager_games, code |-> "AlreadyRunning"]

\* A second start command meets a game that a stop command is still ending.
C1_OlderWitness ==
    \E id \in GameIds : /\ InGames(manager_games, id) /\ id \in enders
                        /\ issued < MaxManagerGames

\* C2, older engine: a player who has reacted in a round keeps hp and correct_guesses
\* while the round lasts.
C2_OlderChangeOnce ==
    [][\A id \in GameIds : \A u \in Users :
          (/\ manager_games[id] # NoSession /\ manager_games'[id] # NoSession
           /\ u \in answered_this_round[id] /\ u \in answered_this_round'[id])
          => manager_games'[id].players[u] = manager_games[id].players[u]]_vars

\* C3, older engine: the step that takes a correct reaction leaves hp and
\* correct_guesses of the players who have not reacted as they are.
C3_OlderWinEndsRound ==
    [][\A id \in GameIds : \A u \in Users :
          (/\ gq_tasks[id].pc = "wait" /\ gq_tasks'[id].pc = "results"
           /\ gq_tasks'[id].correct_answer_given
           /\ u \in DOMAIN manager_games[id].players
           /\ u \notin answered_this_round'[id])
          => manager_games'[id].players[u] = manager_games[id].players[u]]_vars

\* C4, older engine: run_game waits for no reaction once a correct one was taken.
C4_OlderOneWinner ==
    \A id \in GameIds : gq_tasks[id].pc = "wait" => ~gq_tasks[id].correct_answer_given

\* C5, older engine: no player's hp is below 0.
C5_OlderHpNonNegative ==
    \A id \in GameIds : manager_games[id] # NoSession =>
        \A u \in DOMAIN manager_games[id].players : manager_games[id].players[u].hp >= 0

\* C6, older engine: answered_this_round holds players of the game only, and
\* check_reaction lets no reaction of a player without hp through.
C6_OlderAnsweredAreActive ==
    \A id \in GameIds : manager_games[id] # NoSession =>
        /\ answered_this_round[id] \subseteq DOMAIN manager_games[id].players
        /\ \A u \in Users : (Runs(id, "wait") /\ check_reaction(id, u))
                               => manager_games[id].players[u].hp > 0

\* C9, older engine: the results of a round are sent only after a reaction was taken;
\* a round without one ends the game.
C9_OlderSilentRoundEndsGame ==
    \A id \in GameIds : gq_tasks[id].pc \in {"results", "sleep"} => gq_tasks[id].any_answer_given

\* ------------------------------------------------------------------
\* Stopping a game
\* ------------------------------------------------------------------
RoundPcs == {"fill1", "fill2", "fill3", "load", "noimg", "collect", "feedback", "pause"}

\* C11: gta stop by the creator, whatever the game is doing, answers Stopped and
\* takes the session out of service.games, and when the command is over no task of
\* the channel is left in a round (none prepares a round, waits for answers or
\* sleeps between two rounds); the session being out of the table, no later press
\* and no timeout can reach it.
C11_StopEndsSession ==
    [][\A c \in Channels : \A u \in Users :
          (c \in chans /\ games[c] # NoGame /\ games[c].creator_id = u /\ StopCmd(c, u))
          => /\ stop_game(games, c, u).code = "Stopped"
             /\ games'[c] = NoGame
             /\ \A t \in TaskIds : (tasks'[t] # NoTask /\ tasks'[t].c = c)
                                      => tasks'[t].pc \notin RoundPcs]_vars

\* C11, older engine: once gq stop has returned (end_game has deleted the entry while
\* run_game still holds the GameState), no player's hp or correct_guesses changes
\* any more and run_game posts no further round.
C11_OlderStopEndsGame ==
    [][\A id \in GameIds :
          (manager_games[id] # NoSession /\ ~manager_games[id].registered)
          => /\ manager_games'[id] # NoSession => manager_games'[id].players = manager_games[id].players
             /\ ~(gq_tasks[id].pc = "prepare" /\ gq_tasks'[id].pc = "post")]_vars

\* C12 (features engine): gta stop by a member who is not the creator of the
\* channel's game is answered NotAuthorized and changes nothing: the game, its task
\* and the channel's entry of active_countdowns stay as they are.
C12_NotAuthorized ==
    [][\A c \in Channels : \A u \in Users :
          (c \in chans /\ games[c] # NoGame /\ games[c].creator_id # u /\ StopCmd(c, u))
          => /\ stop_game(games, c, u) = [games |-> games, code |-> "NotAuthorized"]
             /\ UNCHANGED <<games, tasks, active_countdowns>>]_vars

\* C12 (as the specification states it), older engine: a gq stop leaves the game of
\* the channel registered and unchanged unless its sender created the game; the
\* command in cogs/gta_quiz.py does not look at its sender, so this is every gq stop.
C12_OlderStopNeedsCreator ==
    [][\A c \in Channels : GqStop(c) => UNCHANGED <<manager_games, gq_tasks, answered_this_round>>]_vars

\* C13 (as the specification states it): a step that changes a player's lives or
\* score leaves the player recorded in answered_players or in timed_out_players, so
\* that no resolution that failed part-way has raised a score and lets the player
\* answer again in the round.
C13_AllOrNothing ==
    [][\A c \in Channels : \A u \in Users :
          (/\ SameGame(c)
           /\ u \in Roster(games[c])
           /\ games'[c].players[u] # games[c].players[u])
          => u \in games'[c].answered_players \cup games'[c].timed_out_players]_vars

\* C14 (as the specification states it): the step in which the task of a started
\* game ends, by whichever exit of the loop of _run_game or by a cancellation, leaves
\* no session registered for the channel, so that create_game succeeds there again.
C14_LoopExitUnregisters ==
    [][\A c \in Channels :
          (games[c] # NoGame /\ games[c].is_active /\ Live(c) # {} /\ Live(c)' = {})
          => /\ games'[c] = NoGame
             /\ \A u \in Users : create_game(games', c, u, "normal", 1).code = "Created"]_vars

\* What add_player answers and does in the state it meets.
AddPlayerContract(c, u) ==
    LET g == games[c]
        r == add_player(games, c, u)
    IN  IF g = NoGame THEN r = [games |-> games, code |-> "NoSuchGame"]
        ELSE IF g.is_active THEN r = [games |-> games, code |-> "GameAlreadyActive"]
        ELSE IF u \in Roster(g) THEN r = [games |-> games, code |-> "AlreadyJoined"]
        ELSE /\ r.code = "Joined"
             /\ Roster(r.games[c]) = Roster(g) \cup {u}
             /\ r.games[c].players[u] = [lives |-> StartingLives, score |-> 0]
             /\ \A x \in Roster(g) : r.games[c].players[x] = g.players[x]
             /\ r.games = [games EXCEPT ![c].players = r.games[c].players]

DifficultyWords == DifficultyInputs \cup {"easy", "Easy", "hArD", "med", ""}
Maps(d) == lower(d) \in Categories

\* C16 (as the specification states it): on a channel without a game, create_game
\* with a word that stands for no mode answers InvalidDifficulty and registers
\* nothing, and with a word that stands for one, in any letter case, creates the game
\* in that mode.
C16_InvalidDifficulty ==
    \A c \in chans : games[c] = NoGame =>
        \A u \in Users, d \in DifficultyWords :
            LET r == create_game(games, c, u, d, NextSid)
            IN  IF Maps(d)
                THEN r.code = "Created" /\ r.games[c].difficulty = lower(d)
                ELSE r = [games |-> games, code |-> "InvalidDifficulty"]

\* C16 amended: the same for every word but the empty one, with which create_game
\* creates the game in the adaptive mode ("normal"); a registered game has one of the
\* four modes.
C16_InvalidDifficultyUnlessEmpty ==
    \A c \in chans :
      IF games[c] # NoGame THEN games[c].difficulty \in Categories
      ELSE
        \A u \in Users, d \in DifficultyWords :
            LET r == create_game(games, c, u, d, NextSid)
            IN  IF Maps(d)
                THEN r.code = "Created" /\ r.games[c].difficulty = lower(d)
                ELSE IF d = ""
                THEN r.code = "Created" /\ r.games[c].difficulty = "normal"
                ELSE r = [games |-> games, code |-> "InvalidDifficulty"]

\* gta start MEDIUM has just created a game of the mode medium on a channel that had
\* none.
C16_Witness ==
    /\ games[1] # NoGame /\ games[1].difficulty = "medium" /\ ~games[1].is_active
    /\ Roster(games[1]) = {games[1].creator_id}

\* C17: whenever create_game succeeds, the channel's new session is not started, its
\* roster is the creator alone with 3 lives and score 0, the three per-tier counts are
\* 0, answered_players and timed_out_players are empty, and the other channels'
\* sessions are untouched.
C17_CreatedInLobby ==
    \A c \in chans : \A u \in Users, d \in DifficultyWords :
        LET r == create_game(games, c, u, d, NextSid)
            g == r.games[c]
        IN  r.code = "Created" =>
               /\ games[c] = NoGame
               /\ ~g.is_active /\ g.creator_id = u
               /\ Roster(g) = {u} /\ g.players[u] = [lives |-> 3, score |-> 0]
               /\ g.easy_correct = 0 /\ g.medium_correct = 0 /\ g.hard_correct = 0
               /\ g.answered_players = {} /\ g.timed_out_players = {}
               /\ \A x \in Channels \ {c} : r.games[x] = games[x]

\* gta start has created an adaptive game whose join message is not sent yet: the
\* session is as create_game left it.
C17_Witness ==
    /\ games[1] # NoGame /\ games[1].difficulty = "normal"
    /\ \E t \in TaskIds : tasks[t] # NoTask /\ tasks[t].c = 1 /\ tasks[t].pc = "spawn"
    /\ games[1] = create_game([games EXCEPT ![1] = NoGame], 1, 1, "normal", games[1].sid).games[1]

\* C18: start_game makes a session active exactly when it has a player; for a channel
\* without a session and for a session with an empty roster it leaves the table as it
\* is.  A session becomes active only in the step that ends its countdown, with a
\* player in its roster, and a countdown that ends without a session runs no round.
C18_StartGame ==
    /\ [](\A c \in chans :
            /\ start_game([games EXCEPT ![c] = NoGame], c) = [games EXCEPT ![c] = NoGame]
            /\ games[c] # NoGame =>
                  LET E == [games EXCEPT ![c].players = <<>>]
                  IN  /\ start_game(E, c) = E
                      /\ start_game(games, c) =
                            IF Roster(games[c]) = {} THEN games
                            ELSE [games EXCEPT ![c].is_active = TRUE])
    /\ [][\A t \in TaskIds :
             LET c == tasks[t].c
             IN  /\ (tasks[t].pc = "countdown" /\ games[c] = NoGame)
                       => (tasks'[t] = tasks[t] \/ tasks'[t] = NoTask)
                 /\ (tasks[t].pc = "countdown" /\ tasks'[t] # NoTask /\ tasks'[t].pc \in RoundPcs)
                       => (Roster(games[c]) # {} /\ games'[c].is_active)]_vars
    /\ [][\A c \in Channels :
             (SameGame(c) /\ ~games[c].is_active /\ games'[c].is_active)
             => /\ Roster(games[c]) # {}
                /\ \E t \in TaskIds : tasks[t] # NoTask /\ tasks[t].c = c /\ tasks[t].pc = "countdown"
                                      /\ tasks'[t] # NoTask /\ tasks'[t].pc # "countdown"]_vars

\* The countdown of a game with two players has ended: start_game has made the
\* session active and the first round waits for answers.
C18_Witness ==
    /\ games[1] # NoGame /\ games[1].is_active /\ Roster(games[1]) = {1, 2}
    /\ \E t \in TaskIds : tasks[t] # NoTask /\ tasks[t].c = 1 /\ tasks[t].pc = "collect"
    /\ hist[1].hit = {} /\ games[1].timed_out_players = {}

\* The per-tier correct count of tier d in game g.
TierCount(g, d) ==
    CASE d = "easy" -> g.easy_correct [] d = "medium" -> g.medium_correct
      [] d = "hard" -> g.hard_correct [] OTHER -> 0

\* C19: a correct answer given on the view of the round that is waiting for answers
\* adds the weight of the tier the round's image was drawn from to the player's
\* score, adds 1 to the correct count of that tier and leaves the other two counts
\* as they were.
C19_TierWeight ==
    [][\A c \in Channels, u \in Users, fault \in DbFaults, dfail \in BOOLEAN :
          \A t \in TaskIds :
             (/\ tasks[t] # NoTask /\ tasks[t].c = c /\ tasks[t].pc = "collect"
              /\ SubmitResult(c, u) = "Processed"
              /\ Submit(c, u, TRUE, TRUE, fault, dfail))
             => /\ games'[c].players[u].score = games[c].players[u].score + Points(tasks[t].cat)
                /\ \A d \in Tiers :
                      TierCount(games'[c], d) =
                         TierCount(games[c], d) + IF d = tasks[t].cat THEN 1 ELSE 0]_vars

\* C20 under GTAGameService: a processed wrong press takes exactly one life from the
\* player who pressed and changes nothing else of any player; the timeout at the end
\* of a round leaves the players without a life as they are; nobody leaves the roster
\* of a session.
C20_WrongAnswer ==
    /\ [][\A c \in Channels, u \in Users, cur \in BOOLEAN, dfail \in BOOLEAN :
             (SubmitResult(c, u) = "Processed" /\ Submit(c, u, cur, FALSE, "none", dfail))
             => games'[c].players = [games[c].players EXCEPT ![u].lives = @ - 1]]_vars
    /\ [][\A t \in TaskIds :
             ((\E why \in RoundExits : RoundEnd(t, why)) /\ games[tasks[t].c] # NoGame)
             => \A u \in Roster(games[tasks[t].c]) :
                   games[tasks[t].c].players[u].lives <= 0
                   => games'[tasks[t].c].players[u] = games[tasks[t].c].players[u]]_vars
    /\ [][\A c \in Channels : SameGame(c) => Roster(games[c]) \subseteq Roster(games'[c])]_vars

\* C20 under GameManager: a round neither waits for nor penalizes a player whose hp
\* is 0 or less: while the game is registered, such a player who has not reacted in
\* the round keeps their hp and their correct guesses.
C20_OlderEliminatedLeftOut ==
    [][\A id \in GameIds :
          (InGames(manager_games, id) /\ InGames(manager_games', id))
          => \A u \in DOMAIN manager_games[id].players :
                (manager_games[id].players[u].hp <= 0 /\ u \notin answered_this_round'[id])
                => manager_games'[id].players[u] = manager_games[id].players[u]]_vars

\* The players handle_game_timeout has to penalize in game g.
Late(g) == {u \in Roster(g) : /\ g.players[u].lives > 0
                              /\ u \notin g.answered_players
                              /\ u \notin g.timed_out_players}

\* C21 under GTAGameService: in every reachable state handle_game_timeout takes one
\* life from exactly the players with a life left who are neither in answered_players
\* nor in timed_out_players and adds exactly them to timed_out_players, changes no
\* other life and no score, and a second call changes nothing; the step that ends the
\* waiting of a round does just that.
C21_Timeout ==
    /\ [](\A c \in Channels : games[c] # NoGame =>
             LET g == games[c]
                 H == handle_game_timeout(games, c)
             IN  /\ \A u \in Roster(g) :
                       /\ H[c].players[u].score = g.players[u].score
                       /\ H[c].players[u].lives = g.players[u].lives - IF u \in Late(g) THEN 1 ELSE 0
                 /\ H[c].timed_out_players = g.timed_out_players \cup Late(g)
                 /\ \A d \in DOMAIN H : d # c => H[d] = games[d]
                 /\ handle_game_timeout(H, c) = H)
    /\ [][\A t \in TaskIds, why \in RoundExits :
             RoundEnd(t, why) => games' = handle_game_timeout(games, tasks[t].c)]_vars

\* C21 under GameManager: when the waiting loop of a round is left, every player who
\* did not react loses one hp if they had one left and keeps their hp otherwise.
C21_OlderDeadline ==
    [][\A id \in GameIds :
          (/\ gq_tasks[id].pc = "wait" /\ gq_tasks'[id].pc = "results"
           /\ InGames(manager_games, id) /\ InGames(manager_games', id))
          => \A u \in DOMAIN manager_games[id].players :
                u \notin answered_this_round'[id]
                => manager_games'[id].players[u].hp =
                      manager_games[id].players[u].hp
                         - IF manager_games[id].players[u].hp > 0 THEN 1 ELSE 0]_vars

\* C22: a press of a player who is in timed_out_players and has no press pending is
\* answered TooLate, and no press of a player in timed_out_players, whatever its
\* label, changes a life, a score or a per-tier correct count of the session.
C22_TooLate ==
    /\ [](\A c \in Channels, u \in Users :
             (/\ games[c] # NoGame /\ u \in games[c].timed_out_players
              /\ u \notin games[c].answered_players)
             => SubmitResult(c, u) = "TooLate")
    /\ [][\A c \in Channels, u \in Users :
             (/\ games[c] # NoGame /\ u \in games[c].timed_out_players
              /\ \E cur, correct, dfail \in BOOLEAN, fault \in DbFaults :
                    Submit(c, u, cur, correct, fault, dfail))
             => /\ SameGame(c)
                /\ games'[c].players = games[c].players
                /\ \A d \in Tiers : TierCount(games'[c], d) = TierCount(games[c], d)]_vars

\* A press of a player the round's deadline had timed out was turned away: its
\* callback waits in the 'too late' reply, and the player has the lives the timeout
\* left them.
C22_Witness ==
    \E r \in inflight :
       /\ r.kind = "replied" /\ games[r.c] # NoGame /\ games[r.c].sid = r.sid
       /\ r.u \in games[r.c].timed_out_players
       /\ r.u \notin hist[r.c].hit
       /\ games[r.c].players[r.u].lives = StartingLives - 1

\* C23: a press turned away with Busy is not recorded as an answer.  A player with a
\* life left, not timed out, none of whose presses was processed in the round, has
\* not answered: when the waiting of the round ends, the deadline times them out.
C23_BusyNotRecorded ==
    [][\A t \in TaskIds :
          ((\E why \in RoundExits : RoundEnd(t, why)) /\ games[tasks[t].c] # NoGame)
          => LET c == tasks[t].c
             IN  \A u \in Roster(games[c]) :
                    (/\ games[c].players[u].lives > 0
                     /\ u \notin games[c].timed_out_players
                     /\ u \notin hist[c].hit)
                    => u \in games'[c].timed_out_players]_vars

\* C24 under GTAGameService: for a channel with a session check_game_over says over
\* exactly when no player of the roster has a life left (an empty roster included),
\* and the final scores it returns hold every player of the roster with their score;
\* the loop goes from the round's messages to the results exactly when it says over.
C24_GameOver ==
    /\ [](\A c \in Channels : games[c] # NoGame =>
             LET g == games[c]
                 E == [games EXCEPT ![c].players = <<>>]
             IN  /\ check_game_over(games, c) <=> \A u \in Roster(g) : g.players[u].lives <= 0
                 /\ check_game_over(E, c)
                 /\ DOMAIN final_scores(g) = Roster(g)
                 /\ \A u \in Roster(g) : final_scores(g)[u] = g.players[u].score)
    /\ [][\A t \in TaskIds :
             (FeedbackDone(t) /\ games[tasks[t].c] # NoGame)
             => (tasks'[t].pc = "results"
                   <=> \A u \in Roster(games[tasks[t].c]) : games[tasks[t].c].players[u].lives <= 0)]_vars

\* Both players of a session have lost their last life, one of them having scored:
\* the check after the round said over and the results are being shown.
C24_Witness ==
    /\ games[1] # NoGame /\ Roster(games[1]) = {1, 2}
    /\ \A u \in Roster(games[1]) : games[1].players[u].lives = 0
    /\ final_scores(games[1])[1] > 0 /\ final_scores(games[1])[2] = 0
    /\ \E t \in TaskIds : tasks[t] # NoTask /\ tasks[t].c = 1 /\ tasks[t].pc = "results"

\* C24 under GameManager: when the results of a round are due, is_game_over holds
\* exactly when no player has hp left, and the final scores then hold every player.
C24_OlderGameOver ==
    \A id \in GameIds :
       (InGames(manager_games, id) /\ gq_tasks[id].pc = "results")
       => LET g == manager_games[id]
          IN  /\ is_game_over(g) <=> ~\E u \in DOMAIN g.players : g.players[u].hp > 0
              /\ is_game_over(g) =>
                    DOMAIN manager_final_scores(g, answered_this_round[id]) = DOMAIN g.players

\* C25: the waiting of a round ends only because every player with a life left is in
\* answered_players or because the round's time is up (a correct answer by itself
\* ends no round of this engine).
C25_RoundExits ==
    \A c \in Channels : hist[c].ended \in {"", "answered", "deadline"}

\* The progression the specification describes, for mode and per-tier counts.
ReferenceTiers(mode, easy, medium, hard) ==
    IF mode # "normal" THEN {mode}
    ELSE IF easy < 2 THEN {"easy"}
    ELSE IF medium < 2 THEN {"medium"}
    ELSE IF hard < 3 THEN {"hard"}
    ELSE {"easy", "medium", "hard"}

\* C26: for the session's mode and per-tier counts get_current_difficulty returns
\* what the reference progression returns (every tier being possible once the three
\* thresholds are reached), never the adaptive marker "normal"; the tier of a round is
\* one of these values, and drawing it changes nothing of the session.
C26_Progression ==
    /\ [](\A c \in Channels : games[c] # NoGame =>
             LET g == games[c]
             IN  /\ get_current_difficulty(g) =
                       ReferenceTiers(g.difficulty, g.easy_correct, g.medium_correct, g.hard_correct)
                 /\ "normal" \notin get_current_difficulty(g)
                 /\ get_current_difficulty(g) # {})
    /\ [][\A t \in TaskIds : DrawTier(t) =>
             /\ games' = games
             /\ tasks'[t].cat \in ReferenceTiers(games[tasks[t].c].difficulty,
                                                 games[tasks[t].c].easy_correct,
                                                 games[tasks[t].c].medium_correct,
                                                 games[tasks[t].c].hard_correct)]_vars

\* An adaptive session went through 2 easy, 2 medium and 3 hard correct answers, and
\* the tier returned after that was "medium": a third medium answer is counted and the
\* round drawn next is a hard one.
C26_Witness ==
    /\ games[1] # NoGame /\ games[1].difficulty = "normal"
    /\ games[1].easy_correct = 2 /\ games[1].medium_correct = 3 /\ games[1].hard_correct = 3
    /\ tasks[1] # NoTask /\ tasks[1].cat = "hard"

\* C27: with rows in the queue get_next_image hands out the head and leaves the tail
\* (never None); with an empty queue it runs one _preload_batch and then hands out
\* the head of what the queue holds, or None when it holds nothing, without a second
\* fetch.  Stated on the two calls get_round_data makes: the first one's None leads to
\* cleanup_category, the second one's None is the ValueError.
C27_GetNext ==
    /\ [](\A cat \in Categories :
             /\ preloaded_images[cat] # <<>> =>
                   /\ prep_get1(Pool, cat) = prep_pop(Pool, cat)
                   /\ prep_get2(Pool, cat) = prep_pop(Pool, cat)
                   /\ \A o \in prep_pop(Pool, cat) :
                         /\ o.pc = "load" /\ o.img = Head(preloaded_images[cat])
                         /\ o.P.pre[cat] = Tail(preloaded_images[cat])
             /\ preloaded_images[cat] = <<>> =>
                   \A o \in prep_get2(Pool, cat) :
                      \/ o.pc = "fill3" /\ o.data # <<>> /\ o.P.pre[cat] = <<>>
                      \/ o.pc = "fail" /\ o.P.pre[cat] = <<>>)
    /\ [][\A t \in TaskIds :
             (tasks[t] # NoTask /\ tasks[t].pc \in {"fill1", "fill3"} /\ PrepResume(t))
             => LET cat == tasks[t].cat
                    Q == preload_resume(Pool, cat, tasks[t].data).pre[cat]
                IN  /\ Q # <<>> => /\ tasks'[t].pc = "load" /\ tasks'[t].img = Head(Q)
                                  /\ preloaded_images'[cat] = Tail(Q)
                    /\ (Q = <<>> /\ tasks[t].pc = "fill3") => tasks'[t].pc = "fail_send"]_vars

\* Two games draw from the same tier: one get_next_image has handed out the head of
\* the queue and waits for its file while rows are still queued, the other found
\* the queue empty and waits inside its synchronous _preload_batch.
C27_Witness ==
    \E t, r \in TaskIds :
       /\ tasks[t] # NoTask /\ tasks[t].pc = "load" /\ tasks[t].img # 0
       /\ tasks[r] # NoTask /\ tasks[r].pc = "fill1" /\ tasks[r].cat = tasks[t].cat

\* C28: no queue ever holds more rows than preload_count, whatever the order in which
\* the start-up fill, the synchronous fills and the background refills complete.
C28_QueueBound ==
    \A cat \in Categories : Len(preloaded_images[cat]) <= preload_count

\* The queue of a tier holds preload_count rows while a synchronous fill of a game,
\* begun when the queue was empty, still has fetched rows to append.
C28_Witness ==
    /\ Len(preloaded_images["easy"]) = preload_count
    /\ \E t \in TaskIds : /\ tasks[t] # NoTask /\ tasks[t].pc = "fill1"
                          /\ tasks[t].cat = "easy" /\ tasks[t].data # <<>>

\* C29: while a background refill of a tier is running (created or awaiting its fetch),
\* the tier's in-flight marker keeps naming it: no step of another fill clears it.
Running(F, f) == F[f] # NoFill /\ F[f].phase \in {"new", "wait"}
C29_MarkerKept ==
    [][\A cat \in Categories :
          LET f == preload_tasks[cat]
          IN  (f # 0 /\ Running(fills, f) /\ fills'[f] = fills[f]) => preload_tasks'[cat] = f]_vars

\* C30: a step that resets a tier (its used ids go from some to none) leaves the tier's
\* queue empty and no background refill of the tier running.  initialize's own fill
\* occupies the first entry of fills; every other entry is a task created by a pop.
C30_ResetCancels ==
    [][\A cat \in Categories :
          (used_images[cat] # {} /\ used_images'[cat] = {}) =>
              /\ preloaded_images'[cat] = <<>>
              /\ \A f \in FillIds \ {1} : ~(Running(fills', f) /\ fills'[f].cat = cat)]_vars

\* C31: a round that asks for an image of a tier whose queue is empty and whose rows are
\* all marked used resets the tier in the same step (used ids and queue cleared, the
\* reset's fill fetched), and when that fill returns the round holds a row of the tier,
\* one that was marked used before the reset; it never ends with "no images".
C31_AutoReset ==
    [][\A t \in TaskIds :
          /\ ( /\ tasks[t] # NoTask /\ tasks[t].pc \in {"countdown", "pause"}
               /\ games[tasks[t].c] # NoGame
               /\ tasks'[t] # NoTask /\ tasks'[t].pc \in FillPcs \cup {"load", "fail_send"}
               /\ catalog[tasks'[t].cat] # {}
               /\ used_images[tasks'[t].cat] = catalog[tasks'[t].cat]
               /\ preloaded_images[tasks'[t].cat] = <<>> )
             => /\ tasks'[t].pc = "fill2"
                /\ used_images'[tasks'[t].cat] = {}
                /\ preloaded_images'[tasks'[t].cat] = <<>>
          /\ (tasks[t] # NoTask /\ tasks[t].pc = "fill2" /\ tasks'[t] # NoTask /\ tasks'[t] # tasks[t])
             => /\ tasks'[t].pc = "load"
                /\ tasks'[t].img \in catalog[tasks[t].cat]
                /\ tasks'[t].img \in used_images'[tasks[t].cat]]_vars

\* The only game of the run is in its third round, and the image of that round is the
\* only one handed out since the tier was reset.
C31_Witness ==
    /\ left.games = MaxPoolGames - 1
    /\ \E t \in TaskIds :
          /\ tasks[t] # NoTask /\ tasks[t].pc = "load"
          /\ games[tasks[t].c] # NoGame
          /\ \E u \in Roster(games[tasks[t].c]) : games[tasks[t].c].players[u].lives = 1
          /\ served[tasks[t].cat] = {tasks[t].img}

\* C32: a step that removes a channel's session (gta stop, or the cleanup after the
\* results) leaves every tier's queue, used ids, in-flight marker and running fills
\* as they were.
C32_StopLeavesPools ==
    [][\A c \in Channels :
          (games[c] # NoGame /\ games'[c] = NoGame) =>
              /\ preloaded_images' = preloaded_images
              /\ used_images' = used_images
              /\ preload_tasks' = preload_tasks
              /\ fills' = fills]_vars

\* C33: the options of a round hold the row's anime_name exactly once and, beside it,
\* min(3, size of the row's wrong options) names taken from the wrong options without
\* replacement, so at most 4 entries; the wrong options of a row are at most 10.
C33_Options ==
    /\ BagSize(round_data.wrong_options) <= 10
    /\ round_data.options # <<>> =>
          /\ Occurrences(round_data.options, round_data.anime_name) = 1
          /\ Len(round_data.options) = 1 + Min(3, BagSize(round_data.wrong_options))
          /\ Len(round_data.options) <= 4
          /\ \A x \in AnimeNames \ {round_data.anime_name} :
                Occurrences(round_data.options, x) <= round_data.wrong_options[x]

\* A tier with more than 10 rows of other names: the row keeps 10 of them and its round
\* shows 4 options.
C33_Witness ==
    /\ round_data.anime_name # ""
    /\ BagSize(anime_names) - anime_names[round_data.anime_name] > 10
    /\ BagSize(round_data.wrong_options) = 10
    /\ Len(round_data.options) = 4

\* C34: a call of update_player_score that reaches its commit leaves the player's
\* highest_score at the larger of the stored and the submitted score and the other
\* rows' scores as they were (so, from the empty table on, the stored score is the
\* largest one submitted); a call with a score that is not above the stored one
\* changes no column of any row.
C34_HighestIsMax ==
    [][\A u \in Members, display_name \in DisplayNames, score \in 0..MaxScore :
          /\ (\E fault \in {"none", "rank"} : UpdateScore(u, display_name, score, fault))
             => /\ board'[u].highest_score = Max(board[u].highest_score, score)
                /\ \A v \in Members \ {u} : board'[v].highest_score = board[v].highest_score
          /\ ( /\ board[u] # NoEntry /\ score <= board[u].highest_score
               /\ \E fault \in DbFaults : UpdateScore(u, display_name, score, fault))
             => board' = board]_vars

\* Every member has a row; member 1 holds the highest score a call may carry, stored
\* under one name while another member's row carries the other name: whatever is
\* submitted for member 1 now is not above the stored score.
C34_Witness ==
    /\ Entries(board) = Members
    /\ board[1].highest_score = MaxScore /\ board[1].display_name = "Rin"
    /\ board[2].highest_score < MaxScore /\ board[2].display_name = "Sho"
    /\ RanksDense(board)

\* C35: a call of update_player_score that returns, returns the highest score the
\* player's row holds after the call.
C35_ReturnsHighest ==
    \A u \in Members, display_name \in DisplayNames, score \in 0..MaxScore :
        \A db \in update_player_score(board, u, display_name, score, "none") :
            db.ret = db.board[u].highest_score

\* C36: in every state the id of every row queued for a tier is in the tier's used ids.
C36_QueuedAreUsed ==
    \A cat \in Categories :
        \A i \in 1..Len(preloaded_images[cat]) : preloaded_images[cat][i] \in used_images[cat]

\* A round has reset the tier and still waits in the reset's fill, while a fill that
\* was fetched before the reset has already queued a row.
C36_Witness ==
    \E t \in TaskIds :
       /\ tasks[t] # NoTask /\ tasks[t].pc = "fill2"
       /\ preloaded_images[tasks[t].cat] # <<>>
       /\ Len(preloaded_images[tasks[t].cat]) < Len(tasks[t].data)

\* C37: while the callback that set processing_answers is still in its resolution
\* (kind "failed": its error reply is pending), the end of a callback that was turned
\* away with Busy or TooLate (kind "replied") leaves the flag of the session set.
C37_LockHeldByHolder ==
    [][\A r, q \in inflight :
          ( /\ r.kind = "failed" /\ q.kind = "replied" /\ q.c = r.c
            /\ games[r.c] # NoGame /\ games[r.c].sid = r.sid
            /\ games[r.c].processing_answers
            /\ CallbackResume(q) )
          => games'[r.c].processing_answers]_vars

\* C38: a press on the answer view of an earlier round adds no player to the
\* answered_players of the session's current round and changes no life and no score.
C38_OldViewIgnored ==
    [][\A c \in Channels, u \in Users :
          (\E correct, dfail \in BOOLEAN, fault \in DbFaults : Submit(c, u, FALSE, correct, fault, dfail))
          => \/ games[c] = NoGame
             \/ /\ SameGame(c)
                /\ games'[c].answered_players = games[c].answered_players
                /\ games'[c].players = games[c].players]_vars

\* C39: a step that changes the session of one channel leaves the session of every
\* other channel as it is: roster, lives, scores, per-tier counts, answered_players and
\* timed_out_players.
C39_Isolated ==
    [][\A a, b \in Channels :
          (a # b /\ games'[a] # games[a]) => games'[b] = games[b]]_vars

\* Both channels hold a started session; the players of one have answered and scored,
\* the player of the other has lost a life and not scored.
C39_Witness ==
    /\ games[1] # NoGame /\ games[2] # NoGame
    /\ games[1].is_active /\ games[2].is_active
    /\ games[1].players[1].score > 0 /\ games[1].answered_players # {}
    /\ games[2].players[1].score = 0 /\ games[2].players[1].lives < StartingLives

\* C40: the entry of a channel in active_countdowns is removed only together with the
\* task it names: a task that finishes, or a StopGame, never removes the entry of a
\* task that goes on running the channel's newer session.
C40_EntryOfRunningTask ==
    [][\A c \in Channels :
          (active_countdowns[c] # 0 /\ active_countdowns'[c] = 0 /\ games'[c] # NoGame)
             => tasks'[active_countdowns[c]] = NoTask]_vars

====
